---- MODULE Spec2Model ----
(***************************************************************************)
(* RS232-to-MQTT bridge: the protocol frame engine.                        *)
(*                                                                         *)
(*   uart_handler.c   frame synchronizer (uart_rx_task, is_frame_complete, *)
(*                    verify_crc, process_frame, update_protocol)          *)
(*   crc_utils.c      checksum subsystem                                   *)
(*   data_parser.c    field extraction engine                              *)
(*   main.c           frame queue, data_processing_task                    *)
(*   cmd_handler.c    configuration commands                               *)
(*                                                                         *)
(* Bytes are naturals 0..255.  A C array passed as (data, len) is a        *)
(* sequence `data` (index 0 of the code is index 1 here) and a length.     *)
(* Time is counted in FreeRTOS ticks.                                      *)
(***************************************************************************)
EXTENDS Integers, Sequences, FiniteSets, TLC

(***************************************************************************)
(* protocol_def.h: enumerations and sizes                                  *)
(***************************************************************************)
PROTOCOL_CUSTOM == 0
PROTOCOL_MODBUS_RTU == 1
PROTOCOL_MODBUS_ASCII == 2
PROTOCOL_NMEA_0183 == 3
PROTOCOL_IEC_60870_101 == 4
PROTOCOL_IEC_60870_104 == 5

CRC_NONE == 0
CRC_XOR_LRC == 1
CRC_SUM8 == 2
CRC_SUM16 == 3
CRC_8 == 16
CRC_8_CCITT == 17
CRC_16_IBM == 32
CRC_16_CCITT == 33
CRC_16_MODBUS == 34
CRC_16_XMODEM == 35
CRC_32 == 48
CRC_32_C == 49

DATA_TYPE_BOOL == 0
DATA_TYPE_UINT8 == 1
DATA_TYPE_INT8 == 2
DATA_TYPE_UINT16 == 3
DATA_TYPE_INT16 == 4
DATA_TYPE_UINT32 == 5
DATA_TYPE_INT32 == 6
DATA_TYPE_UINT64 == 7
DATA_TYPE_INT64 == 8
DATA_TYPE_FLOAT32 == 16
DATA_TYPE_FLOAT64 == 17
DATA_TYPE_BCD == 32
DATA_TYPE_STRING == 48
DATA_TYPE_HEX_STRING == 49
DATA_TYPE_TIMESTAMP == 64
DATA_TYPE_TIMESTAMP_MS == 65

MAX_FIELD_COUNT == 64
MAX_FIELD_NAME_LEN == 32
MAX_FIELD_NAMES_SIZE == 1024
FRAME_BUF_SIZE == 512
UART_RX_QUEUE_SIZE == 10
RX_BUF_SIZE == 128

\* FreeRTOS tick rate of the build (sdkconfig); the specification counts
\* time in "time-units" equal to the configured milliseconds.
configTICK_RATE_HZ == 1000

pdMS_TO_TICKS(ms) == (ms * configTICK_RATE_HZ) \div 1000

(***************************************************************************)
(* Bit arithmetic on naturals                                              *)
(***************************************************************************)
RECURSIVE Xor(_, _)
Xor(a, b) ==
    IF a = 0 THEN b
    ELSE IF b = 0 THEN a
    ELSE (((a % 2) + (b % 2)) % 2) + (2 * Xor(a \div 2, b \div 2))

RECURSIVE Pow2(_)
Pow2(n) == IF n = 0 THEN 1 ELSE 2 * Pow2(n - 1)

Bit(v, n) == (v \div Pow2(n)) % 2

\* data[from .. from+n) of a C array, 0-based; bytes the buffer never held
\* read as the zero of static storage
At(data, i) == IF i + 1 <= Len(data) THEN data[i + 1] ELSE 0

Slice(data, from, n) == [k \in 1..n |-> At(data, from + k - 1)]

\* `e`, with the accumulator `v` evaluated first (loops keep their running
\* value evaluated instead of building one nested expression per iteration)
Eager(v, e) == IF v = v THEN e ELSE e

\* a 32-bit word as its four bytes, least significant first
U32(hi, lo) == <<lo % 256, lo \div 256, hi % 256, hi \div 256>>

(***************************************************************************)
(* crc_utils.c                                                             *)
(***************************************************************************)
\* eight rounds of  crc = (crc & top) ? (crc << 1) ^ poly : crc << 1
RECURSIVE ShiftLeftRounds(_, _, _, _)
ShiftLeftRounds(crc, poly, width, j) ==
    IF j = 0 THEN crc
    ELSE LET s == (crc * 2) % Pow2(width)
         IN  ShiftLeftRounds(IF crc >= Pow2(width - 1) THEN Xor(s, poly) ELSE s,
                             poly, width, j - 1)

\* eight rounds of  crc = (crc & 1) ? (crc >> 1) ^ poly : crc >> 1
RECURSIVE ShiftRightRounds(_, _, _)
ShiftRightRounds(crc, poly, j) ==
    IF j = 0 THEN crc
    ELSE ShiftRightRounds(IF crc % 2 = 1 THEN Xor(crc \div 2, poly) ELSE crc \div 2,
                          poly, j - 1)

\* the same on a 32-bit register kept as <<high half, low half>>
RECURSIVE ShiftRightRounds32(_, _, _)
ShiftRightRounds32(crc, poly, j) ==
    IF j = 0 THEN crc
    ELSE LET hi == crc[1] \div 2
             lo == (crc[2] \div 2) + (crc[1] % 2) * 32768
         IN  ShiftRightRounds32(IF crc[2] % 2 = 1
                                   THEN <<Xor(hi, poly[1]), Xor(lo, poly[2])>>
                                   ELSE <<hi, lo>>,
                                poly, j - 1)

RECURSIVE crc8_loop(_, _, _, _)
crc8_loop(data, i, crc, poly) ==
    IF i > Len(data) THEN crc
    ELSE Eager(crc, crc8_loop(data, i + 1,
                              ShiftLeftRounds(Xor(crc, data[i]), poly, 8, 8), poly))

crc_calc_crc8(data) == crc8_loop(data, 1, 0, 7)

crc_calc_crc8_ccitt(data) == crc8_loop(data, 1, 0, 141)

RECURSIVE xor_loop(_, _, _)
xor_loop(data, i, result) ==
    IF i > Len(data) THEN result
    ELSE Eager(result, xor_loop(data, i + 1, Xor(result, data[i])))

crc_calc_xor(data) == xor_loop(data, 1, 0)

RECURSIVE sum_loop(_, _, _, _)
sum_loop(data, i, result, modulus) ==
    IF i > Len(data) THEN result
    ELSE Eager(result, sum_loop(data, i + 1, (result + data[i]) % modulus, modulus))

crc_calc_sum8(data) == sum_loop(data, 1, 0, 256)

crc_calc_sum16(data) == sum_loop(data, 1, 0, 65536)

\* the loop over the bytes data[lo] .. data[hi], first half then second half
\* (the same bytes in the same order, without one nested call per byte)
RECURSIVE crc16_reflected_range(_, _, _, _, _)
crc16_reflected_range(data, lo, hi, crc, poly) ==
    IF lo > hi THEN crc
    ELSE IF lo = hi THEN ShiftRightRounds(Xor(crc, data[lo]), poly, 8)
    ELSE LET mid == (lo + hi) \div 2
             first == crc16_reflected_range(data, lo, mid, crc, poly)
         IN  Eager(first, crc16_reflected_range(data, mid + 1, hi, first, poly))

crc16_reflected_loop(data, i, crc, poly) ==
    crc16_reflected_range(data, i, Len(data), crc, poly)

RECURSIVE crc16_msb_loop(_, _, _, _)
crc16_msb_loop(data, i, crc, poly) ==
    IF i > Len(data) THEN crc
    ELSE Eager(crc, crc16_msb_loop(data, i + 1,
                        ShiftLeftRounds(Xor(crc, data[i] * 256), poly, 16, 8), poly))

crc_calc_crc16_ibm(data) == crc16_reflected_loop(data, 1, 0, 40961)

crc_calc_crc16_ccitt(data) == crc16_msb_loop(data, 1, 65535, 4129)

crc_calc_crc16_modbus(data) == crc16_reflected_loop(data, 1, 65535, 40961)

crc_calc_crc16_xmodem(data) == crc16_msb_loop(data, 1, 0, 4129)

RECURSIVE crc32_loop(_, _, _, _)
crc32_loop(data, i, crc, poly) ==
    IF i > Len(data) THEN <<65535 - crc[1], 65535 - crc[2]>>
    ELSE Eager(crc, crc32_loop(data, i + 1,
                    ShiftRightRounds32(<<crc[1], Xor(crc[2], data[i])>>, poly, 8), poly))

\* Fault: crc_calc_crc32 returns crc instead of ~crc.
crc_calc_crc32_no_inversion(data) ==
    LET c == crc32_loop(data, 1, <<65535, 65535>>, <<60856, 33568>>)
    IN  <<65535 - c[1], 65535 - c[2]>>

\* 0xEDB88320
crc_calc_crc32(data) == crc32_loop(data, 1, <<65535, 65535>>, <<60856, 33568>>)

\* 0x82F63B78
crc_calc_crc32c(data) == crc32_loop(data, 1, <<65535, 65535>>, <<33526, 15224>>)

\* the uint32_t result, as four bytes
crc_calculate(type, data) ==
    CASE type = CRC_NONE -> U32(0, 0)
      [] type = CRC_XOR_LRC -> U32(0, crc_calc_xor(data))
      [] type = CRC_SUM8 -> U32(0, crc_calc_sum8(data))
      [] type = CRC_SUM16 -> U32(0, crc_calc_sum16(data))
      [] type = CRC_8 -> U32(0, crc_calc_crc8(data))
      [] type = CRC_8_CCITT -> U32(0, crc_calc_crc8_ccitt(data))
      [] type = CRC_16_IBM -> U32(0, crc_calc_crc16_ibm(data))
      [] type = CRC_16_CCITT -> U32(0, crc_calc_crc16_ccitt(data))
      [] type = CRC_16_MODBUS -> U32(0, crc_calc_crc16_modbus(data))
      [] type = CRC_16_XMODEM -> U32(0, crc_calc_crc16_xmodem(data))
      [] type = CRC_32 -> LET c == crc_calc_crc32(data) IN U32(c[1], c[2])
      [] type = CRC_32_C -> LET c == crc_calc_crc32c(data) IN U32(c[1], c[2])
      [] OTHER -> U32(0, 0)

crc_get_size(type) ==
    CASE type \in {CRC_XOR_LRC, CRC_SUM8, CRC_8, CRC_8_CCITT} -> 1
      [] type \in {CRC_SUM16, CRC_16_IBM, CRC_16_CCITT, CRC_16_MODBUS, CRC_16_XMODEM} -> 2
      [] type \in {CRC_32, CRC_32_C} -> 4
      [] OTHER -> 0

(***************************************************************************)
(* protocol_def.h: protocol_config_data_t is a type tag and a union.  The  *)
(* union is kept as the record of the variant last written to it; reading  *)
(* it through another variant reads the same bytes, laid out as the        *)
(* structures of protocol_def.h lay them out (natural alignment).          *)
(***************************************************************************)
CustomCfg(frame_length, stx_enable, stx_value, etx_enable, etx_value, length_field_enable, length_field_offset, length_field_size, length_includes_header, crc_type, crc_offset, crc_start_offset, crc_end_offset, timeout_ms) ==
    [variant |-> "custom", frame_length |-> frame_length,
     stx_enable |-> stx_enable, stx_value |-> stx_value,
     etx_enable |-> etx_enable, etx_value |-> etx_value,
     length_field_enable |-> length_field_enable,
     length_field_offset |-> length_field_offset,
     length_field_size |-> length_field_size,
     length_includes_header |-> length_includes_header,
     crc_type |-> crc_type, crc_offset |-> crc_offset,
     crc_start_offset |-> crc_start_offset, crc_end_offset |-> crc_end_offset,
     timeout_ms |-> timeout_ms]

ModbusCfg(slave_address, function_codes, inter_frame_delay, response_timeout) ==
    [variant |-> "modbus_rtu", slave_address |-> slave_address,
     function_codes |-> function_codes, inter_frame_delay |-> inter_frame_delay,
     response_timeout |-> response_timeout]

NmeaCfg(sentence_filter_count, validate_checksum) ==
    [variant |-> "nmea", sentence_filter_count |-> sentence_filter_count,
     validate_checksum |-> validate_checksum]

Iec60870Cfg(link_address_size, asdu_address_size, ioa_size, cause_of_tx_size, originator_address, balanced_mode, type_id_filter) ==
    [variant |-> "iec60870", link_address_size |-> link_address_size,
     asdu_address_size |-> asdu_address_size, ioa_size |-> ioa_size,
     cause_of_tx_size |-> cause_of_tx_size,
     originator_address |-> originator_address, balanced_mode |-> balanced_mode,
     type_id_filter |-> type_id_filter]

ProtocolConfig(type, u) == [type |-> type, u |-> u]

ZeroCustom == CustomCfg(0, FALSE, 0, FALSE, 0, FALSE, 0, 0, FALSE, CRC_NONE, 0, 0, 0, 0)

BoolByte(b) == IF b THEN 1 ELSE 0

\* s_proto_cfg.config.custom
custom(cfg) ==
    LET u == cfg.u IN
    CASE u.variant = "custom" -> u
      [] u.variant = "modbus_rtu" ->
            \* slave_address @0, function_codes @4..7, inter_frame_delay @8..9,
            \* response_timeout @10..11
            [ZeroCustom EXCEPT
                !.frame_length = u.slave_address,
                !.stx_value = u.function_codes % 65536,
                !.etx_enable = (u.function_codes \div 65536) % 256 # 0,
                !.etx_value = u.inter_frame_delay,
                !.length_field_enable = u.response_timeout % 256 # 0,
                !.length_field_offset = u.response_timeout \div 256]
      [] u.variant = "nmea" ->
            \* sentence_filter_count @0; the filters are never filled in
            [ZeroCustom EXCEPT !.frame_length = u.sentence_filter_count]
      [] u.variant = "iec60870" ->
            \* sizes @0..3, originator_address @4, balanced_mode @5,
            \* type_id_filter @8..11
            [ZeroCustom EXCEPT
                !.frame_length = u.link_address_size + (256 * u.asdu_address_size),
                !.stx_enable = u.ioa_size # 0,
                !.stx_value = u.originator_address + (256 * BoolByte(u.balanced_mode)),
                !.etx_value = u.type_id_filter % 65536,
                !.length_field_enable = (u.type_id_filter \div 65536) % 256 # 0,
                !.length_field_offset = (u.type_id_filter \div 65536) \div 256]

\* s_proto_cfg.config.modbus_rtu.inter_frame_delay (bytes 8..9 of the union)
inter_frame_delay(cfg) ==
    LET u == cfg.u IN
    CASE u.variant = "modbus_rtu" -> u.inter_frame_delay
      [] u.variant = "custom" -> u.etx_value
      [] u.variant = "nmea" -> 0
      [] u.variant = "iec60870" -> u.type_id_filter % 65536

\* s_proto_cfg.config.nmea.validate_checksum (byte 49 of the union, beyond
\* every other variant)
validate_checksum(cfg) ==
    IF cfg.u.variant = "nmea" THEN cfg.u.validate_checksum ELSE FALSE

(***************************************************************************)
(* strtol(hex, NULL, 16) on a two-character string, cast to uint8_t        *)
(***************************************************************************)
HexDigit(c) ==
    CASE c \in 48..57 -> c - 48
      [] c \in 65..70 -> c - 55
      [] c \in 97..102 -> c - 87
      [] OTHER -> -1

isspace(c) == c \in {32, 9, 10, 11, 12, 13}

strtol_hex2(c1, c2) ==
    LET h1 == HexDigit(c1)
        h2 == IF c1 = 0 THEN -1 ELSE HexDigit(c2)
        v  == CASE c1 = 0 -> 0
                [] h1 >= 0 -> IF h2 >= 0 THEN (16 * h1) + h2 ELSE h1
                [] isspace(c1) \/ c1 = 43 -> IF h2 >= 0 THEN h2 ELSE 0
                [] c1 = 45 -> IF h2 >= 0 THEN 0 - h2 ELSE 0
                [] OTHER -> 0
    IN  (v + 256) % 256

(***************************************************************************)
(* uart_handler.c: verify_crc                                              *)
(***************************************************************************)
\* recv |= data[crc_offset + i] << (i * 8), i < crc_size
RecvChecksum(data, crc_offset, crc_size) ==
    [k \in 1..4 |-> IF k <= crc_size THEN At(data, crc_offset + k - 1) ELSE 0]

\* Fault: the checksum is computed from the first byte of the frame instead of
\* crc_start_offset.
verify_crc_custom_from_zero(c, data, len) ==
    IF c.crc_type = CRC_NONE THEN TRUE
    ELSE LET crc_end == IF c.crc_end_offset = 0 \/ c.crc_end_offset > len
                           THEN c.crc_offset ELSE c.crc_end_offset
             crc_size == crc_get_size(c.crc_type)
         IN  IF crc_end = 0 \/ 0 >= len THEN TRUE
             ELSE IF c.crc_offset + crc_size > len THEN FALSE
             ELSE crc_calculate(c.crc_type, Slice(data, 0, crc_end))
                      = RecvChecksum(data, c.crc_offset, crc_size)

verify_crc_custom(c, data, len) ==
    IF c.crc_type = CRC_NONE THEN TRUE
    ELSE LET crc_start == c.crc_start_offset
             crc_end == IF c.crc_end_offset = 0 \/ c.crc_end_offset > len
                           THEN c.crc_offset ELSE c.crc_end_offset
             crc_len == crc_end - crc_start
             crc_size == crc_get_size(c.crc_type)
         IN  IF crc_len = 0 \/ crc_start >= len THEN TRUE
             ELSE IF c.crc_offset + crc_size > len THEN FALSE
             ELSE crc_calculate(c.crc_type, Slice(data, crc_start, crc_len))
                      = RecvChecksum(data, c.crc_offset, crc_size)

\* Fault: the received CRC is read high byte first.
verify_crc_modbus_rtu_high_first(data, len) ==
    IF len < 4 THEN FALSE
    ELSE crc_calc_crc16_modbus(Slice(data, 0, len - 2))
            = (256 * At(data, len - 2)) + At(data, len - 1)

verify_crc_modbus_rtu(data, len) ==
    IF len < 4 THEN FALSE
    ELSE crc_calc_crc16_modbus(Slice(data, 0, len - 2))
            = At(data, len - 2) + (256 * At(data, len - 1))

RECURSIVE lrc_loop(_, _, _, _)
lrc_loop(data, len, i, lrc) ==
    IF i < len - 4
       THEN Eager(lrc, lrc_loop(data, len, i + 2,
                       (lrc + strtol_hex2(At(data, i), At(data, i + 1))) % 256))
       ELSE lrc

verify_crc_modbus_ascii(data, len) ==
    IF len < 9 THEN FALSE
    ELSE LET lrc == (256 - lrc_loop(data, len, 1, 0)) % 256
             recv_lrc == strtol_hex2(At(data, len - 4), At(data, len - 3))
         IN  lrc = recv_lrc

\* the first i in [1, len - 3) with data[i] = '*', or -1
RECURSIVE nmea_star(_, _, _)
nmea_star(data, len, i) ==
    IF i >= len - 3 THEN -1
    ELSE IF At(data, i) = 42 THEN i
    ELSE nmea_star(data, len, i + 1)

verify_crc_nmea(cfg, data, len) ==
    IF ~validate_checksum(cfg) THEN TRUE
    ELSE LET i == nmea_star(data, len, 1)
         IN  IF i < 0 THEN FALSE
             ELSE crc_calc_xor(Slice(data, 1, i - 1))
                     = strtol_hex2(At(data, i + 1), At(data, i + 2))

verify_crc_iec101(data, len) ==
    IF len = 1 /\ At(data, 0) = 229 THEN TRUE
    ELSE IF len >= 5 /\ At(data, 0) = 16
        THEN ((At(data, 1) + At(data, 2)) % 256 = At(data, 3)) /\ At(data, 4) = 22
    ELSE IF len >= 6 /\ At(data, 0) = 104
        THEN LET frame_len == At(data, 1)
                 cs_pos == 4 + frame_len
             IN  IF At(data, 2) # frame_len \/ At(data, 3) # 104 THEN FALSE
                 ELSE IF cs_pos >= len - 1 THEN FALSE
                 ELSE crc_calc_sum8(Slice(data, 4, frame_len)) = At(data, cs_pos)
                         /\ At(data, cs_pos + 1) = 22
    ELSE FALSE

verify_crc(cfg, data, len) ==
    CASE cfg.type = PROTOCOL_CUSTOM -> verify_crc_custom(custom(cfg), data, len)
      [] cfg.type = PROTOCOL_MODBUS_RTU -> verify_crc_modbus_rtu(data, len)
      [] cfg.type = PROTOCOL_MODBUS_ASCII -> verify_crc_modbus_ascii(data, len)
      [] cfg.type = PROTOCOL_NMEA_0183 -> verify_crc_nmea(cfg, data, len)
      [] cfg.type = PROTOCOL_IEC_60870_101 -> verify_crc_iec101(data, len)
      [] OTHER -> TRUE

\* The cases in which verify_crc reads outside the frame buffer: size_t
\* arithmetic wraps in the Custom range length (crc_end < crc_start) and in
\* the NMEA scan bound (len < 3).
verify_crc_wraps(cfg, data, len) ==
    \/ /\ cfg.type = PROTOCOL_CUSTOM
       /\ custom(cfg).crc_type # CRC_NONE
       /\ LET c == custom(cfg)
              crc_end == IF c.crc_end_offset = 0 \/ c.crc_end_offset > len
                            THEN c.crc_offset ELSE c.crc_end_offset
          IN  crc_end < c.crc_start_offset /\ c.crc_start_offset < len
    \/ /\ cfg.type = PROTOCOL_NMEA_0183
       /\ validate_checksum(cfg)
       /\ len < 3

\* what verify_crc can return
verify_crc_results(cfg, data, len) ==
    IF verify_crc_wraps(cfg, data, len) THEN {TRUE, FALSE}
    ELSE {verify_crc(cfg, data, len)}

(***************************************************************************)
(* uart_handler.c: is_frame_complete; elapsed = xTaskGetTickCount() -      *)
(* s_last_rx                                                               *)
(***************************************************************************)
is_frame_complete_custom(c, data, len) ==
    \/ c.frame_length > 0 /\ len >= c.frame_length
    \/ /\ c.stx_enable /\ c.etx_enable
       /\ IF c.etx_value <= 255
             THEN At(data, len - 1) = c.etx_value % 256
             ELSE /\ len >= 2
                  /\ At(data, len - 2) = (c.etx_value \div 256) % 256
                  /\ At(data, len - 1) = c.etx_value % 256
    \/ /\ c.length_field_enable /\ len > c.length_field_offset
       /\ LET frame_len ==
                  IF c.length_field_size = 1
                     THEN At(data, c.length_field_offset)
                  ELSE IF c.length_field_size = 2 /\ len > c.length_field_offset + 1
                     THEN At(data, c.length_field_offset)
                            + (256 * At(data, c.length_field_offset + 1))
                  ELSE 0
          IN  IF c.length_includes_header
                 THEN len >= frame_len
                 ELSE len >= frame_len + c.length_field_offset + c.length_field_size

\* Fault: a Modbus RTU buffer of four bytes is complete without any silence.
is_frame_complete_modbus_rtu_no_silence(cfg, len, elapsed) ==
    len >= 4

is_frame_complete_modbus_rtu(cfg, len, elapsed) ==
    /\ len >= 4
    /\ LET timeout == IF inter_frame_delay(cfg) = 0 THEN 4 ELSE inter_frame_delay(cfg)
       IN  elapsed >= pdMS_TO_TICKS(timeout)

is_frame_complete_iec101(data, len) ==
    \/ len = 1 /\ At(data, 0) = 229
    \/ len >= 5 /\ At(data, 0) = 16 /\ At(data, len - 1) = 22
    \/ /\ len >= 6 /\ At(data, 0) = 104
       /\ At(data, 2) = At(data, 1) /\ At(data, 3) = 104
       /\ len >= 4 + At(data, 1) + 2 /\ At(data, len - 1) = 22

is_frame_complete(cfg, data, len, elapsed) ==
    /\ len # 0
    /\ CASE cfg.type = PROTOCOL_CUSTOM -> is_frame_complete_custom(custom(cfg), data, len)
         [] cfg.type = PROTOCOL_MODBUS_RTU -> is_frame_complete_modbus_rtu(cfg, len, elapsed)
         [] cfg.type = PROTOCOL_MODBUS_ASCII ->
                /\ len >= 9 /\ At(data, 0) = 58
                /\ At(data, len - 2) = 13 /\ At(data, len - 1) = 10
         [] cfg.type = PROTOCOL_NMEA_0183 ->
                /\ len >= 6 /\ At(data, 0) = 36
                /\ At(data, len - 2) = 13 /\ At(data, len - 1) = 10
         [] cfg.type = PROTOCOL_IEC_60870_101 -> is_frame_complete_iec101(data, len)
         [] OTHER -> FALSE

(***************************************************************************)
(* protocol_def.h: field_definition_t, data_definition_t, parsed_field_t   *)
(***************************************************************************)
FieldDef(field_type, byte_order, start_offset, bit_offset, bit_length, scale_factor, offset_value, name_length, name_index) ==
    [field_type |-> field_type, byte_order |-> byte_order,
     start_offset |-> start_offset, bit_offset |-> bit_offset,
     bit_length |-> bit_length, scale_factor |-> scale_factor,
     offset_value |-> offset_value, name_length |-> name_length,
     name_index |-> name_index]

ZeroField == FieldDef(0, 0, 0, 0, 0, 0, 0, 0, 0)

DataDefinition(field_count, data_offset, fields, field_names, names_length) ==
    [field_count |-> field_count, data_offset |-> data_offset, fields |-> fields,
     field_names |-> field_names, names_length |-> names_length]

\* def->fields[i]; the entries a definition does not fill are zero
FieldAt(def, i) == IF i < Len(def.fields) THEN def.fields[i + 1] ELSE ZeroField

\* def->field_names[k]
NameCharAt(def, k) == IF k < Len(def.field_names) THEN def.field_names[k + 1] ELSE 0

\* field_value_t is a union: member says which member was written last, v is
\* its value (a number, or the characters of str up to its terminator)
FieldValue(member, v) == [member |-> member, v |-> v]

\* scaled_value is kept exactly, in thousandths
ParsedField(name, type, value, scaled_value) ==
    [name |-> name, type |-> type, value |-> value, scaled_value |-> scaled_value]

ZeroParsed == ParsedField(<<>>, 0, FieldValue("u64", 0), 0)

(***************************************************************************)
(* data_parser.c                                                           *)
(***************************************************************************)
RECURSIVE Decimal(_)
Decimal(n) == IF n < 10 THEN <<48 + n>> ELSE Decimal(n \div 10) \o <<48 + (n % 10)>>

\* Fault: the copy loop stops at len < max_len, leaving no room for the
\* terminator.
RECURSIVE name_copy_no_room(_, _, _, _)
name_copy_no_room(def, name_idx, len, max_len) ==
    IF /\ name_idx + len < def.names_length
       /\ NameCharAt(def, name_idx + len) # 0
       /\ len < max_len
       THEN <<NameCharAt(def, name_idx + len)>> \o name_copy_no_room(def, name_idx, len + 1, max_len)
       ELSE <<>>

RECURSIVE name_copy(_, _, _, _)
name_copy(def, name_idx, len, max_len) ==
    IF /\ name_idx + len < def.names_length
       /\ NameCharAt(def, name_idx + len) # 0
       /\ len < max_len - 1
       THEN <<NameCharAt(def, name_idx + len)>> \o name_copy(def, name_idx, len + 1, max_len)
       ELSE <<>>

data_parser_get_field_name(def, index, max_len) ==
    IF max_len = 0 \/ index >= def.field_count THEN <<>>
    ELSE LET name_idx == FieldAt(def, index).name_index
         IN  IF name_idx < def.names_length
                THEN name_copy(def, name_idx, 0, max_len)
                ELSE LET full == <<70, 105, 101, 108, 100>> \o Decimal(index)
                     IN  SubSeq(full, 1, IF Len(full) < max_len - 1 THEN Len(full)
                                         ELSE max_len - 1)

\* a frame_item_t of main.c: data[] holds length copied bytes, and what the
\* stack held before (junk) beyond them
ItemAt(item, k) == IF k < item.length THEN item.data[k + 1] ELSE item.junk

\* read_bytes(data, offset, size, big_endian) with data = item.data + base
RECURSIVE read_bytes_be(_, _, _, _)
read_bytes_be(item, from, i, value) ==
    IF i = 0 THEN value
    ELSE Eager(value, read_bytes_be(item, from + 1, i - 1, (value * 256) + ItemAt(item, from)))

RECURSIVE read_bytes_le(_, _, _)
read_bytes_le(item, from, i) ==
    IF i = 0 THEN 0
    ELSE ItemAt(item, from) + (256 * read_bytes_le(item, from + 1, i - 1))

\* Fault: read_bytes reads most significant byte first whatever the order.
read_bytes_always_be(item, base, offset, size, big_endian) ==
    read_bytes_be(item, base + offset, size, 0)

read_bytes(item, base, offset, size, big_endian) ==
    IF big_endian THEN read_bytes_be(item, base + offset, size, 0)
    ELSE read_bytes_le(item, base + offset, size)

\* Fault: a scale_factor of 0 multiplies by 0.
apply_scale_zero_scale(raw, field) == (raw * field.scale_factor) + (10 * field.offset_value)

apply_scale(raw, field) ==
    LET scale == IF field.scale_factor = 0 THEN 1000 ELSE field.scale_factor
    IN  (raw * scale) + (10 * field.offset_value)

Signed(v, bits) == IF v >= Pow2(bits - 1) THEN v - (2 * Pow2(bits - 1)) ELSE v

\* the value of an IEEE-754 single whose value is a whole number (the frames of
\* the scenarios hold no others); positive, since the word is below 2^31
float32_value(bits) ==
    LET e == (bits \div 8388608) % 256
        m == (bits % 8388608) + (IF e = 0 THEN 0 ELSE 8388608)
    IN  IF e >= 150 THEN m * Pow2(e - 150) ELSE m \div Pow2(150 - e)

\* the value of an IEEE-754 double, given as its high and low words, whose
\* value is a whole number with a zero low word
float64_value(hi, lo) ==
    LET e == (hi \div 1048576) % 2048
        m == (hi % 1048576) + (IF e = 0 THEN 0 ELSE 1048576)
    IN  IF e >= 1043 THEN m * Pow2(e - 1043) ELSE m \div Pow2(1043 - e)

RECURSIVE bcd_loop(_, _, _, _, _, _)
bcd_loop(item, base, fd, data_len, j, result) ==
    IF j < (fd.bit_length + 7) \div 8 /\ fd.start_offset + j < data_len
       THEN LET byte == ItemAt(item, base + fd.start_offset + j)
            IN  Eager(result, bcd_loop(item, base, fd, data_len, j + 1,
                        (result * 100) + ((byte \div 16) * 10) + (byte % 16)))
       ELSE result

\* a C string: the characters before the first NUL
RECURSIVE CString(_)
CString(s) == IF s = <<>> \/ Head(s) = 0 THEN <<>> ELSE <<Head(s)>> \o CString(Tail(s))

\* Fault: sprintf with "%02x", lower-case digits.
HexChar_lower(n) == IF n < 10 THEN 48 + n ELSE 87 + n

HexChar(n) == IF n < 10 THEN 48 + n ELSE 55 + n

RECURSIVE hex_loop(_, _, _, _)
hex_loop(item, from, j, n) ==
    IF j < n
       THEN <<HexChar(ItemAt(item, from + j) \div 16), HexChar(ItemAt(item, from + j) % 16)>>
               \o hex_loop(item, from, j + 1, n)
       ELSE <<>>

Min(a, b) == IF a < b THEN a ELSE b

\* the switch of data_parser_parse_frame on fd->field_type: the value written
\* to out->value (old when the type is unknown) and raw_val
decode_field(fd, item, base, data_len, old) ==
    LET t == fd.field_type
        big_endian == fd.byte_order # 0
        rd(size) == read_bytes(item, base, fd.start_offset, size, big_endian)
        byte == ItemAt(item, base + fd.start_offset)
    IN  CASE t = DATA_TYPE_BOOL ->
                LET b == IF fd.bit_offset < 8 THEN Bit(byte, fd.bit_offset) ELSE 0
                IN  [value |-> FieldValue("b", b), raw |-> b]
          [] t = DATA_TYPE_UINT8 -> [value |-> FieldValue("u8", byte), raw |-> byte]
          [] t = DATA_TYPE_INT8 ->
                [value |-> FieldValue("i8", Signed(byte, 8)), raw |-> Signed(byte, 8)]
          [] t = DATA_TYPE_UINT16 -> [value |-> FieldValue("u16", rd(2)), raw |-> rd(2)]
          [] t = DATA_TYPE_INT16 ->
                [value |-> FieldValue("i16", Signed(rd(2), 16)), raw |-> Signed(rd(2), 16)]
          [] t = DATA_TYPE_UINT32 -> [value |-> FieldValue("u32", rd(4)), raw |-> rd(4)]
          [] t = DATA_TYPE_INT32 -> [value |-> FieldValue("i32", rd(4)), raw |-> rd(4)]
          [] t = DATA_TYPE_UINT64 -> [value |-> FieldValue("u64", rd(8)), raw |-> rd(8)]
          [] t = DATA_TYPE_INT64 -> [value |-> FieldValue("i64", rd(8)), raw |-> rd(8)]
          [] t = DATA_TYPE_FLOAT32 ->
                [value |-> FieldValue("f32", rd(4)), raw |-> float32_value(rd(4))]
          [] t = DATA_TYPE_FLOAT64 ->
                \* the 64 bits as <<high word, low word>>
                LET hi == read_bytes(item, base, fd.start_offset + (IF big_endian THEN 0 ELSE 4),
                                     4, big_endian)
                    lo == read_bytes(item, base, fd.start_offset + (IF big_endian THEN 4 ELSE 0),
                                     4, big_endian)
                IN  [value |-> FieldValue("f64", <<hi, lo>>), raw |-> float64_value(hi, lo)]
          [] t = DATA_TYPE_BCD ->
                LET r == bcd_loop(item, base, fd, data_len, 0, 0)
                IN  [value |-> FieldValue("u64", r), raw |-> r]
          [] t = DATA_TYPE_STRING ->
                LET want == Min(fd.bit_length \div 8, 63)
                    str_len == IF fd.start_offset + want > data_len
                                  THEN data_len - fd.start_offset ELSE want
                    chars == [k \in 1..str_len |->
                                 ItemAt(item, base + fd.start_offset + k - 1)]
                IN  [value |-> FieldValue("str", CString(chars)), raw |-> 0]
          [] t = DATA_TYPE_HEX_STRING ->
                LET byte_len == Min(fd.bit_length \div 8, 31)
                    n == Min(byte_len, data_len - fd.start_offset)
                IN  [value |-> FieldValue("str", hex_loop(item, base + fd.start_offset, 0, n)),
                     raw |-> 0]
          [] t = DATA_TYPE_TIMESTAMP -> [value |-> FieldValue("u32", rd(4)), raw |-> rd(4)]
          [] t = DATA_TYPE_TIMESTAMP_MS -> [value |-> FieldValue("u64", rd(8)), raw |-> rd(8)]
          [] OTHER -> [value |-> old, raw |-> 0]

\* out->scaled_value after the switch
scaled_of(fd, raw) ==
    IF fd.field_type # DATA_TYPE_STRING /\ fd.field_type # DATA_TYPE_HEX_STRING
       THEN apply_scale(raw, fd) ELSE 0

(***************************************************************************)
(* Bounds of the model                                                     *)
(***************************************************************************)
\* the reception task's clock stops here (ticks)
MaxTime == 300
\* commands the command task handles in one behaviour
MaxCmds == 1

\* the wait of uart_rx_task on its event queue, in milliseconds
RX_WAIT_MS == 100
\* after this long without data s_receiving is cleared, in milliseconds
RECEIVING_RESET_MS == 1000

(***************************************************************************)
(* State                                                                   *)
(***************************************************************************)
\* wifi_manager.c: the first reconnect delay, its cap and its growth, and the
\* attempts of wifi_manager_connect before it gives up
BACKOFF_INITIAL_MS == 1000

BACKOFF_MAX_MS == 30000

BACKOFF_MULTIPLIER == 2

INITIAL_CONNECT_MAX_RETRY == 5

VARIABLES
    \* uart_handler.c
    s_proto_cfg, s_frame_buf, s_frame_idx, s_last_rx, s_rx_count, s_error_count,
    s_receiving,
    \* uart_rx_task: its position, rx_buf[], the loop index i, the value of
    \* s_frame_idx it loaded for s_frame_buf[s_frame_idx++], and whether it is
    \* on the data path or the timeout path
    rx_pc, rx_buf, rx_i, rx_idx, rx_path,
    \* xTaskGetTickCount() and the bytes still to arrive on the line: segments
    \* of bytes, each after gap ticks of silence
    now, wire,
    \* main.c
    g_frame_queue, g_protocol_config, g_data_definition, g_sequence,
    \* data_parser.c
    s_def,
    \* data_processing_task: its position, item, fields[], and the locals of
    \* data_parser_parse_frame (i, count, s_def.data_offset as read, result)
    proc_pc, item, fields, p_i, p_count, p_data_off, p_ret,
    \* the command task: its position and the commands it may still receive
    cmd_pc, cmds_left,
    \* history: the scenario chosen at the start, line positions, per buffered
    \* byte the line position and the configuration and definition
    \* installations completed when it was stored, the calls of process_frame,
    \* and per parse the definition generations read and the fields skipped
    scenario, wire_pos, rx_base, s_frame_tag, cfg_epoch, def_epoch, s_def_gen,
    t_last_byte, processed, p_gens, p_skipped,
    \* history: the frames the processing task took from the queue
    dequeued,
    \* uart_handler.c: s_running, and whether s_queue is the queue of an
    \* installed driver; the reception tasks created so far, each with its
    \* position and the ticks its blocking call may still take; the caller of
    \* uart_handler_stop and uart_handler_start, its position and the ticks left
    \* of its vTaskDelay
    s_running, s_queue, rx_tasks, ctl_pc, ctl_left,
    \* history: the tasks that were running when a call of uart_handler_stop
    \* returned, and what such a task did afterwards
    stopped, late_access,
    \* wifi_manager.c
    s_connected, s_initial_connecting, s_retry_count, s_backoff_ms, s_reconnect_timer,
    \* the WiFi driver: what esp_wifi_connect is doing
    wifi_pc,
    \* history: the periods the reconnect timer was started with since the
    \* last reset_backoff
    wifi_delays

uart_vars == <<s_proto_cfg, s_frame_buf, s_frame_idx, s_last_rx, s_rx_count,
               s_error_count, s_receiving>>

rx_vars == <<rx_pc, rx_buf, rx_i, rx_idx, rx_path>>

line_vars == <<now, wire, wire_pos, rx_base, t_last_byte>>

main_vars == <<g_frame_queue, g_protocol_config, g_data_definition, g_sequence>>

proc_vars == <<proc_pc, item, fields, p_i, p_count, p_data_off, p_ret, p_gens, p_skipped>>

cmd_vars == <<cmd_pc, cmds_left>>

task_vars == <<s_running, s_queue, rx_tasks, ctl_pc, ctl_left, stopped, late_access>>

wifi_vars == <<s_connected, s_initial_connecting, s_retry_count, s_backoff_ms,
               s_reconnect_timer, wifi_pc, wifi_delays>>

hist_vars == <<scenario, s_frame_tag, cfg_epoch, def_epoch, s_def_gen, processed, dequeued>>

vars == <<uart_vars, rx_vars, line_vars, main_vars, s_def, proc_vars, cmd_vars, hist_vars,
          task_vars, wifi_vars>>

Segment(gap, bytes) == [gap |-> gap, bytes |-> bytes]

\* s_frame_buf[idx] = v on the part of the buffer written so far
Store(buf, idx, v) == IF idx < Len(buf) THEN [buf EXCEPT ![idx + 1] = v] ELSE Append(buf, v)

(***************************************************************************)
(* uart_handler.c: uart_rx_task                                            *)
(***************************************************************************)
\* xQueueReceive returns a UART_DATA event; uart_read_bytes fills rx_buf
RxRecvData ==
    /\ rx_pc = "wait"
    /\ wire # <<>>
    /\ Head(wire).gap < pdMS_TO_TICKS(RX_WAIT_MS)
    /\ \E k \in 1..Min(Len(Head(wire).bytes), RX_BUF_SIZE) :
          LET seg == Head(wire)
          IN  /\ rx_buf' = SubSeq(seg.bytes, 1, k)
              /\ wire' = IF k = Len(seg.bytes) THEN Tail(wire)
                         ELSE <<Segment(0, SubSeq(seg.bytes, k + 1, Len(seg.bytes)))>>
                                 \o Tail(wire)
              /\ now' = now + seg.gap
              /\ s_last_rx' = now + seg.gap
              /\ t_last_byte' = now + seg.gap
              /\ rx_base' = wire_pos
              /\ wire_pos' = wire_pos + k
    /\ rx_i' = 0
    /\ rx_path' = "data"
    /\ rx_pc' = "append"
    /\ UNCHANGED <<task_vars, wifi_vars,
                   s_proto_cfg, s_frame_buf, s_frame_idx, s_rx_count, s_error_count,
                   s_receiving, rx_idx, main_vars, s_def, proc_vars, cmd_vars, hist_vars>>

\* Fault: the loop test is s_frame_idx <= FRAME_BUF_SIZE.
RxAppendLoad_Inclusive ==
    /\ rx_pc = "append"
    /\ IF rx_i < Len(rx_buf) /\ s_frame_idx <= FRAME_BUF_SIZE
          THEN rx_idx' = s_frame_idx /\ rx_pc' = "store"
          ELSE rx_idx' = rx_idx /\ rx_pc' = "check"
    /\ UNCHANGED <<task_vars, wifi_vars,
                   uart_vars, rx_buf, rx_i, rx_path, line_vars, main_vars, s_def,
                   proc_vars, cmd_vars, hist_vars>>

\* for (i < len && s_frame_idx < FRAME_BUF_SIZE): the loop test and the load
\* of s_frame_idx
RxAppendLoad ==
    /\ rx_pc = "append"
    /\ IF rx_i < Len(rx_buf) /\ s_frame_idx < FRAME_BUF_SIZE
          THEN rx_idx' = s_frame_idx /\ rx_pc' = "store"
          ELSE rx_idx' = rx_idx /\ rx_pc' = "check"
    /\ UNCHANGED <<task_vars, wifi_vars,
                   uart_vars, rx_buf, rx_i, rx_path, line_vars, main_vars, s_def,
                   proc_vars, cmd_vars, hist_vars>>

\* s_frame_buf[s_frame_idx++] = rx_buf[i]: the stores
RxAppendStore ==
    /\ rx_pc = "store"
    /\ s_frame_buf' = Store(s_frame_buf, rx_idx, rx_buf[rx_i + 1])
    /\ s_frame_tag' = Store(s_frame_tag, rx_idx,
                            [pos |-> rx_base + rx_i + 1, cfg_epoch |-> cfg_epoch,
                             def_epoch |-> def_epoch])
    /\ s_frame_idx' = rx_idx + 1
    /\ rx_i' = rx_i + 1
    /\ rx_pc' = "append"
    /\ UNCHANGED <<task_vars, wifi_vars,
                   s_proto_cfg, s_last_rx, s_rx_count, s_error_count, s_receiving,
                   rx_buf, rx_idx, rx_path, line_vars, main_vars, s_def, proc_vars,
                   cmd_vars, scenario, dequeued, cfg_epoch, def_epoch, s_def_gen, processed>>

\* if (is_frame_complete(s_frame_buf, s_frame_idx))
RxCheckComplete ==
    /\ rx_pc = "check"
    /\ rx_pc' = IF is_frame_complete(s_proto_cfg, s_frame_buf, s_frame_idx, now - s_last_rx)
                   THEN "process" ELSE "wait"
    /\ UNCHANGED <<task_vars, wifi_vars,
                   uart_vars, rx_buf, rx_i, rx_idx, rx_path, line_vars, main_vars,
                   s_def, proc_vars, cmd_vars, hist_vars>>

\* Fault: with the queue full the oldest queued frame makes room for the new
\* one.
uart_frame_handler_overwrite(queue, data, length, junk, tags) ==
    LET n == IF length < FRAME_BUF_SIZE THEN length ELSE FRAME_BUF_SIZE
        it == [data |-> SubSeq(data, 1, n), length |-> n, junk |-> junk,
               pre_def |-> \E k \in 1..n : tags[k].def_epoch < def_epoch]
    IN  IF Len(queue) < UART_RX_QUEUE_SIZE THEN Append(queue, it)
        ELSE Append(Tail(queue), it)

\* main.c: uart_frame_handler, the callback: the frame is copied to an item
\* and queued unless the queue is full
uart_frame_handler(queue, data, length, junk, tags) ==
    LET n == Min(length, FRAME_BUF_SIZE)
        it == [data |-> SubSeq(data, 1, n), length |-> n, junk |-> junk,
               pre_def |-> \E k \in 1..n : tags[k].def_epoch < def_epoch]
    IN  IF Len(queue) < UART_RX_QUEUE_SIZE THEN Append(queue, it) ELSE queue

\* what an uninitialised byte of a frame_item_t on the stack may hold
JunkBytes == {0, 165}

\* Fault: process_frame counts the frame and calls the callback although
\* verify_crc failed.
RxProcessFrame_CallbackOnError ==
    /\ rx_pc = "process"
    /\ LET len == s_frame_idx
           data == Slice(s_frame_buf, 0, len)
           tags == SubSeq(s_frame_tag, 1, len)
       IN  \E ok \in verify_crc_results(s_proto_cfg, s_frame_buf, len) :
              /\ processed' = Append(processed,
                    [data |-> data, pos |-> [k \in 1..len |-> tags[k].pos], ok |-> ok,
                     cfg |-> s_proto_cfg, elapsed |-> now - t_last_byte, path |-> rx_path,
                     old |-> \E k \in 1..len : tags[k].cfg_epoch < cfg_epoch])
              /\ s_error_count' = IF ok THEN s_error_count ELSE s_error_count + 1
              /\ s_rx_count' = s_rx_count + 1
              /\ s_receiving' = TRUE
              /\ \E junk \in JunkBytes :
                    g_frame_queue' = uart_frame_handler(g_frame_queue, data, len, junk, tags)
    /\ rx_pc' = "reset"
    /\ UNCHANGED <<task_vars, wifi_vars,
                   s_proto_cfg, s_frame_buf, s_frame_idx, s_last_rx, rx_buf, rx_i,
                   rx_idx, rx_path, line_vars, g_protocol_config, g_data_definition,
                   g_sequence, s_def, proc_vars, cmd_vars, scenario, dequeued, s_frame_tag,
                   cfg_epoch, def_epoch, s_def_gen>>

\* process_frame(s_frame_buf, s_frame_idx)
RxProcessFrame ==
    /\ rx_pc = "process"
    /\ LET len == s_frame_idx
           data == Slice(s_frame_buf, 0, len)
           tags == SubSeq(s_frame_tag, 1, len)
       IN  \E ok \in verify_crc_results(s_proto_cfg, s_frame_buf, len) :
              /\ processed' = Append(processed,
                    [data |-> data, pos |-> [k \in 1..len |-> tags[k].pos], ok |-> ok,
                     cfg |-> s_proto_cfg, elapsed |-> now - t_last_byte, path |-> rx_path,
                     old |-> \E k \in 1..len : tags[k].cfg_epoch < cfg_epoch])
              /\ IF ok
                    THEN /\ s_rx_count' = s_rx_count + 1
                         /\ s_receiving' = TRUE
                         /\ \E junk \in JunkBytes :
                               g_frame_queue' =
                                   uart_frame_handler(g_frame_queue, data, len, junk, tags)
                         /\ UNCHANGED s_error_count
                    ELSE /\ s_error_count' = s_error_count + 1
                         /\ UNCHANGED <<s_rx_count, s_receiving, g_frame_queue>>
    /\ rx_pc' = "reset"
    /\ UNCHANGED <<task_vars, wifi_vars,
                   s_proto_cfg, s_frame_buf, s_frame_idx, s_last_rx, rx_buf, rx_i,
                   rx_idx, rx_path, line_vars, g_protocol_config, g_data_definition,
                   g_sequence, s_def, proc_vars, cmd_vars, scenario, dequeued, s_frame_tag,
                   cfg_epoch, def_epoch, s_def_gen>>

\* if (s_receiving && now - s_last_rx > pdMS_TO_TICKS(1000)) s_receiving = false
receiving_after_idle(t) ==
    IF s_receiving /\ t - s_last_rx > pdMS_TO_TICKS(RECEIVING_RESET_MS) THEN FALSE
    ELSE s_receiving

\* s_frame_idx = 0, and on the timeout path the reset of s_receiving
RxResetIdx ==
    /\ rx_pc = "reset"
    /\ s_frame_idx' = 0
    /\ s_receiving' = IF rx_path = "timeout" THEN receiving_after_idle(now) ELSE s_receiving
    /\ rx_pc' = "wait"
    /\ UNCHANGED <<task_vars, wifi_vars,
                   s_proto_cfg, s_frame_buf, s_last_rx, s_rx_count, s_error_count,
                   rx_buf, rx_i, rx_idx, rx_path, line_vars, main_vars, s_def,
                   proc_vars, cmd_vars, hist_vars>>

\* the timeout of the idle branch, in milliseconds
idle_timeout_ms(cfg) ==
    IF cfg.type = PROTOCOL_CUSTOM
       THEN (IF custom(cfg).timeout_ms = 0 THEN 100 ELSE custom(cfg).timeout_ms)
    ELSE IF cfg.type = PROTOCOL_MODBUS_RTU
       THEN (IF inter_frame_delay(cfg) = 0 THEN 10 ELSE inter_frame_delay(cfg))
    ELSE 100

\* Fault: the idle branch passes a buffer of any length to process_frame.
RxTimeout_ProcessesShort ==
    /\ rx_pc = "wait"
    /\ IF wire = <<>> THEN TRUE ELSE Head(wire).gap >= pdMS_TO_TICKS(RX_WAIT_MS)
    /\ now + pdMS_TO_TICKS(RX_WAIT_MS) <= MaxTime
    /\ now' = now + pdMS_TO_TICKS(RX_WAIT_MS)
    /\ wire' = IF wire = <<>> THEN wire
               ELSE <<Segment(Head(wire).gap - pdMS_TO_TICKS(RX_WAIT_MS), Head(wire).bytes)>>
                       \o Tail(wire)
    /\ rx_path' = "timeout"
    /\ IF /\ s_frame_idx > 0
          /\ now' - s_last_rx >= pdMS_TO_TICKS(idle_timeout_ms(s_proto_cfg))
          THEN /\ rx_pc' = IF s_frame_idx >= 1 THEN "process" ELSE "reset"
               /\ UNCHANGED s_receiving
          ELSE /\ rx_pc' = "wait"
               /\ s_receiving' = receiving_after_idle(now')
    /\ UNCHANGED <<task_vars, wifi_vars,
                   s_proto_cfg, s_frame_buf, s_frame_idx, s_last_rx, s_rx_count,
                   s_error_count, rx_buf, rx_i, rx_idx, wire_pos, rx_base, t_last_byte,
                   main_vars, s_def, proc_vars, cmd_vars, hist_vars>>

\* xQueueReceive times out after 100 ms without an event
RxTimeout ==
    /\ rx_pc = "wait"
    /\ IF wire = <<>> THEN TRUE ELSE Head(wire).gap >= pdMS_TO_TICKS(RX_WAIT_MS)
    /\ now + pdMS_TO_TICKS(RX_WAIT_MS) <= MaxTime
    /\ now' = now + pdMS_TO_TICKS(RX_WAIT_MS)
    /\ wire' = IF wire = <<>> THEN wire
               ELSE <<Segment(Head(wire).gap - pdMS_TO_TICKS(RX_WAIT_MS), Head(wire).bytes)>>
                       \o Tail(wire)
    /\ rx_path' = "timeout"
    /\ IF /\ s_frame_idx > 0
          /\ now' - s_last_rx >= pdMS_TO_TICKS(idle_timeout_ms(s_proto_cfg))
          THEN /\ rx_pc' = IF s_frame_idx >= 3 THEN "process" ELSE "reset"
               /\ UNCHANGED s_receiving
          ELSE /\ rx_pc' = "wait"
               /\ s_receiving' = receiving_after_idle(now')
    /\ UNCHANGED <<task_vars, wifi_vars,
                   s_proto_cfg, s_frame_buf, s_frame_idx, s_last_rx, s_rx_count,
                   s_error_count, rx_buf, rx_i, rx_idx, wire_pos, rx_base, t_last_byte,
                   main_vars, s_def, proc_vars, cmd_vars, hist_vars>>

RxNext ==
    \/ RxRecvData
    \/ RxAppendLoad
    \/ RxAppendStore
    \/ RxCheckComplete
    \/ RxProcessFrame
    \/ RxResetIdx
    \/ RxTimeout

(***************************************************************************)
(* main.c: data_processing_task, with data_parser_parse_frame inlined      *)
(***************************************************************************)
\* xQueueReceive(g_frame_queue, &item, ...) returns an item
ProcDequeue ==
    /\ proc_pc = "idle"
    /\ g_frame_queue # <<>>
    /\ item' = Head(g_frame_queue)
    /\ g_frame_queue' = Tail(g_frame_queue)
    /\ dequeued' = Append(dequeued, Head(g_frame_queue).data)
    /\ proc_pc' = "parse"
    /\ UNCHANGED <<task_vars, wifi_vars,
                   uart_vars, rx_vars, line_vars, g_protocol_config, g_data_definition,
                   g_sequence, s_def, fields, p_i, p_count, p_data_off, p_ret, p_gens,
                   p_skipped, cmd_vars, scenario, s_frame_tag, cfg_epoch, def_epoch,
                   s_def_gen, processed>>

\* Fault: the frame is refused only for s_def.data_offset > raw_len.
ParseStart_OffsetStrict ==
    /\ proc_pc = "parse"
    /\ p_gens' = {s_def_gen.layout}
    /\ p_skipped' = {}
    /\ p_i' = 0
    /\ IF s_def.field_count = 0 \/ s_def.data_offset > item.length
          THEN /\ p_ret' = -1
               /\ proc_pc' = "done"
               /\ UNCHANGED <<p_count, p_data_off>>
          ELSE /\ p_data_off' = s_def.data_offset
               /\ p_count' = IF s_def.field_count < MAX_FIELD_COUNT
                                THEN s_def.field_count ELSE MAX_FIELD_COUNT
               /\ proc_pc' = "field"
               /\ UNCHANGED p_ret
    /\ UNCHANGED <<task_vars, wifi_vars,
                   uart_vars, rx_vars, line_vars, main_vars, s_def, item, fields,
                   cmd_vars, hist_vars>>

\* data_parser_parse_frame up to its loop: the checks of s_def.field_count and
\* s_def.data_offset
ParseStart ==
    /\ proc_pc = "parse"
    /\ p_gens' = {s_def_gen.layout}
    /\ p_skipped' = {}
    /\ p_i' = 0
    /\ IF s_def.field_count = 0 \/ s_def.data_offset >= item.length
          THEN /\ p_ret' = -1
               /\ proc_pc' = "done"
               /\ UNCHANGED <<p_count, p_data_off>>
          ELSE /\ p_data_off' = s_def.data_offset
               /\ p_count' = Min(s_def.field_count, MAX_FIELD_COUNT)
               /\ proc_pc' = "field"
               /\ UNCHANGED p_ret
    /\ UNCHANGED <<task_vars, wifi_vars,
                   uart_vars, rx_vars, line_vars, main_vars, s_def, item, fields,
                   cmd_vars, hist_vars>>

\* Fault: break instead of continue at a field with fd->start_offset >=
\* data_len.
ParseFieldSkip_Break ==
    /\ proc_pc = "field"
    /\ p_i < p_count
    /\ FieldAt(s_def, p_i).start_offset >= item.length - p_data_off
    /\ fields' = [fields EXCEPT ![p_i + 1] =
                     [@ EXCEPT !.name = data_parser_get_field_name(s_def, p_i, MAX_FIELD_NAME_LEN),
                               !.type = FieldAt(s_def, p_i).field_type]]
    /\ p_skipped' = p_skipped \cup {p_i}
    /\ p_gens' = p_gens \cup {s_def_gen.layout, s_def_gen.names}
    /\ p_i' = p_count
    /\ UNCHANGED <<task_vars, wifi_vars,
                   uart_vars, rx_vars, line_vars, main_vars, s_def, proc_pc, item,
                   p_count, p_data_off, p_ret, cmd_vars, hist_vars>>

\* one iteration for a field with fd->start_offset >= data_len: name and type
\* are set, then continue
ParseFieldSkip ==
    /\ proc_pc = "field"
    /\ p_i < p_count
    /\ FieldAt(s_def, p_i).start_offset >= item.length - p_data_off
    /\ fields' = [fields EXCEPT ![p_i + 1] =
                     [@ EXCEPT !.name = data_parser_get_field_name(s_def, p_i, MAX_FIELD_NAME_LEN),
                               !.type = FieldAt(s_def, p_i).field_type]]
    /\ p_skipped' = p_skipped \cup {p_i}
    /\ p_gens' = p_gens \cup {s_def_gen.layout, s_def_gen.names}
    /\ p_i' = p_i + 1
    /\ UNCHANGED <<task_vars, wifi_vars,
                   uart_vars, rx_vars, line_vars, main_vars, s_def, proc_pc, item,
                   p_count, p_data_off, p_ret, cmd_vars, hist_vars>>

\* one iteration for a field inside the payload: name, type, value, scaled_value
ParseFieldDecode ==
    /\ proc_pc = "field"
    /\ p_i < p_count
    /\ FieldAt(s_def, p_i).start_offset < item.length - p_data_off
    /\ LET fd == FieldAt(s_def, p_i)
           d == decode_field(fd, item, p_data_off, item.length - p_data_off,
                             fields[p_i + 1].value)
       IN  fields' = [fields EXCEPT ![p_i + 1] =
                         ParsedField(data_parser_get_field_name(s_def, p_i, MAX_FIELD_NAME_LEN),
                                     fd.field_type, d.value, scaled_of(fd, d.raw))]
    /\ p_gens' = p_gens \cup {s_def_gen.layout, s_def_gen.names}
    /\ p_i' = p_i + 1
    /\ UNCHANGED <<task_vars, wifi_vars,
                   uart_vars, rx_vars, line_vars, main_vars, s_def, proc_pc, item,
                   p_count, p_data_off, p_ret, p_skipped, cmd_vars, hist_vars>>

\* return count
ParseReturn ==
    /\ proc_pc = "field"
    /\ p_i >= p_count
    /\ p_ret' = p_count
    /\ proc_pc' = "done"
    /\ UNCHANGED <<task_vars, wifi_vars,
                   uart_vars, rx_vars, line_vars, main_vars, s_def, item, fields, p_i,
                   p_count, p_data_off, p_gens, p_skipped, cmd_vars, hist_vars>>

\* if (field_count > 0) g_sequence++ and the result is published
ProcPublish ==
    /\ proc_pc = "done"
    /\ g_sequence' = IF p_ret > 0 THEN (g_sequence + 1) % 65536 ELSE g_sequence
    /\ proc_pc' = "idle"
    /\ UNCHANGED <<task_vars, wifi_vars,
                   uart_vars, rx_vars, line_vars, g_frame_queue, g_protocol_config,
                   g_data_definition, s_def, item, fields, p_i, p_count, p_data_off,
                   p_ret, p_gens, p_skipped, cmd_vars, hist_vars>>

ProcNext ==
    \/ ProcDequeue
    \/ ParseStart
    \/ ParseFieldSkip
    \/ ParseFieldDecode
    \/ ParseReturn
    \/ ProcPublish

(***************************************************************************)
(* The command task: CMD_SET_PROTOCOL and CMD_SET_DATA_DEF                 *)
(***************************************************************************)
CfgFixed(n) ==
    ProtocolConfig(PROTOCOL_CUSTOM,
        CustomCfg(n, FALSE, 0, FALSE, 0, FALSE, 0, 0, FALSE, CRC_NONE, 0, 0, 0, 0))

CfgRtu(delay) == ProtocolConfig(PROTOCOL_MODBUS_RTU, ModbusCfg(1, 0, delay, 0))

U8Field(start_offset) == FieldDef(DATA_TYPE_UINT8, 0, start_offset, 0, 8, 0, 0, 0, 0)

\* the configurations and definitions the commands of a behaviour carry
NewProtocolConfigs == {CfgFixed(2), CfgRtu(150)}

NewDefinitions == {DataDefinition(1, 1, <<U8Field(0)>>, <<78, 0>>, 2)}

\* cmd_parse_protocol_config fills g_protocol_config
CmdSetProtocol ==
    /\ cmd_pc = "idle"
    /\ cmds_left > 0
    /\ \E cfg \in NewProtocolConfigs : g_protocol_config' = cfg
    /\ cmds_left' = cmds_left - 1
    /\ cmd_pc' = "proto_type"
    /\ UNCHANGED <<task_vars, wifi_vars,
                   uart_vars, rx_vars, line_vars, g_frame_queue, g_data_definition,
                   g_sequence, s_def, proc_vars, hist_vars>>

\* uart_handler_update_protocol: memcpy(&s_proto_cfg, cfg, ...), the type tag
UpdateProtocolCopyType ==
    /\ cmd_pc = "proto_type"
    /\ s_proto_cfg' = [s_proto_cfg EXCEPT !.type = g_protocol_config.type]
    /\ cmd_pc' = "proto_union"
    /\ UNCHANGED <<task_vars, wifi_vars,
                   s_frame_buf, s_frame_idx, s_last_rx, s_rx_count, s_error_count,
                   s_receiving, rx_vars, line_vars, main_vars, s_def, proc_vars,
                   cmds_left, hist_vars>>

\* uart_handler_update_protocol: memcpy(&s_proto_cfg, cfg, ...), the union
UpdateProtocolCopyUnion ==
    /\ cmd_pc = "proto_union"
    /\ s_proto_cfg' = [s_proto_cfg EXCEPT !.u = g_protocol_config.u]
    /\ cfg_epoch' = cfg_epoch + 1
    /\ cmd_pc' = "proto_reset"
    /\ UNCHANGED <<task_vars, wifi_vars,
                   s_frame_buf, s_frame_idx, s_last_rx, s_rx_count, s_error_count,
                   s_receiving, rx_vars, line_vars, main_vars, s_def, proc_vars,
                   cmds_left, scenario, dequeued, s_frame_tag, def_epoch, s_def_gen, processed>>

\* uart_handler_update_protocol: s_frame_idx = 0
UpdateProtocolResetIdx ==
    /\ cmd_pc = "proto_reset"
    /\ s_frame_idx' = 0
    /\ cmd_pc' = "idle"
    /\ UNCHANGED <<task_vars, wifi_vars,
                   s_proto_cfg, s_frame_buf, s_last_rx, s_rx_count, s_error_count,
                   s_receiving, rx_vars, line_vars, main_vars, s_def, proc_vars,
                   cmds_left, hist_vars>>

\* cmd_parse_data_definition fills g_data_definition
CmdSetDataDef ==
    /\ cmd_pc = "idle"
    /\ cmds_left > 0
    /\ \E def \in NewDefinitions : g_data_definition' = def
    /\ cmds_left' = cmds_left - 1
    /\ cmd_pc' = "def_layout"
    /\ UNCHANGED <<task_vars, wifi_vars,
                   uart_vars, rx_vars, line_vars, g_frame_queue, g_protocol_config,
                   g_sequence, s_def, proc_vars, hist_vars>>

\* data_parser_set_definition: memcpy(&s_def, def, ...), field_count,
\* data_offset and fields[]
SetDefinitionCopyLayout ==
    /\ cmd_pc = "def_layout"
    /\ s_def' = [s_def EXCEPT !.field_count = g_data_definition.field_count,
                              !.data_offset = g_data_definition.data_offset,
                              !.fields = g_data_definition.fields]
    /\ s_def_gen' = [s_def_gen EXCEPT !.layout = @ + 1]
    /\ cmd_pc' = "def_names"
    /\ UNCHANGED <<task_vars, wifi_vars,
                   uart_vars, rx_vars, line_vars, main_vars, proc_vars, cmds_left,
                   scenario, dequeued, s_frame_tag, cfg_epoch, def_epoch, processed>>

\* Fault: data_parser_set_definition also empties the accumulation buffer.
SetDefinitionCopyNames_DropsFrame ==
    /\ cmd_pc = "def_names"
    /\ s_def' = [s_def EXCEPT !.field_names = g_data_definition.field_names,
                              !.names_length = g_data_definition.names_length]
    /\ s_def_gen' = [s_def_gen EXCEPT !.names = @ + 1]
    /\ def_epoch' = def_epoch + 1
    /\ s_frame_idx' = 0
    /\ cmd_pc' = "idle"
    /\ UNCHANGED <<task_vars, wifi_vars,
                   s_proto_cfg, s_frame_buf, s_last_rx, s_rx_count, s_error_count,
                   s_receiving, rx_vars, line_vars, main_vars, proc_vars, cmds_left,
                   scenario, dequeued, s_frame_tag, cfg_epoch, processed>>

\* data_parser_set_definition: memcpy(&s_def, def, ...), field_names[] and
\* names_length
SetDefinitionCopyNames ==
    /\ cmd_pc = "def_names"
    /\ s_def' = [s_def EXCEPT !.field_names = g_data_definition.field_names,
                              !.names_length = g_data_definition.names_length]
    /\ s_def_gen' = [s_def_gen EXCEPT !.names = @ + 1]
    /\ def_epoch' = def_epoch + 1
    /\ cmd_pc' = "idle"
    /\ UNCHANGED <<task_vars, wifi_vars,
                   uart_vars, rx_vars, line_vars, main_vars, proc_vars, cmds_left,
                   scenario, dequeued, s_frame_tag, cfg_epoch, processed>>

CmdNext ==
    \/ CmdSetProtocol
    \/ UpdateProtocolCopyType
    \/ UpdateProtocolCopyUnion
    \/ UpdateProtocolResetIdx
    \/ CmdSetDataDef
    \/ SetDefinitionCopyLayout
    \/ SetDefinitionCopyNames

(***************************************************************************)
(* Initial states                                                          *)
(***************************************************************************)
NoScenario == [kind |-> "none"]

\* what fields[] of data_processing_task, never initialised, may hold
JunkParsed == ParsedField(<<74>>, DATA_TYPE_UINT8, FieldValue("u8", 165), 165000)

InitialDefinition == DataDefinition(2, 0, <<U8Field(0), U8Field(2)>>, <<65, 0, 66, 0>>, 4)

\* everything but the configuration, the definition, the line, the queue, the
\* content of fields[] and the scenario
InitCommon ==
    /\ s_frame_buf = <<>> /\ s_frame_idx = 0 /\ s_last_rx = 0
    /\ s_rx_count = 0 /\ s_error_count = 0 /\ s_receiving = FALSE
    /\ rx_pc = "wait" /\ rx_buf = <<>> /\ rx_i = 0 /\ rx_idx = 0 /\ rx_path = "data"
    /\ now = 0 /\ wire_pos = 0 /\ rx_base = 0 /\ t_last_byte = 0
    /\ g_sequence = 0
    /\ proc_pc = "idle"
    /\ item = [data |-> <<>>, length |-> 0, junk |-> 0, pre_def |-> FALSE]
    /\ p_i = 0 /\ p_count = 0 /\ p_data_off = 0 /\ p_ret = 0
    /\ p_gens = {} /\ p_skipped = {}
    /\ cmd_pc = "idle"
    /\ s_frame_tag = <<>> /\ cfg_epoch = 0 /\ def_epoch = 0
    /\ s_def_gen = [layout |-> 0, names |-> 0]
    /\ processed = <<>> /\ dequeued = <<>>
    /\ s_running = TRUE /\ s_queue = TRUE
    /\ rx_tasks = <<[pc |-> "test", left |-> 0]>>
    /\ ctl_pc = "idle" /\ ctl_left = 0
    /\ stopped = {} /\ late_access = {}
    /\ s_connected = FALSE /\ s_initial_connecting = FALSE
    /\ s_retry_count = 0 /\ s_backoff_ms = BACKOFF_INITIAL_MS
    /\ s_reconnect_timer = [created |-> FALSE, active |-> FALSE, period |-> 0]
    /\ wifi_pc = "stopped" /\ wifi_delays = <<>>

\* the three tasks running together: a Custom configuration with a fixed
\* frame length of 3, four bytes on the line
Init ==
    /\ InitCommon
    /\ s_proto_cfg = CfgFixed(3)
    /\ g_protocol_config = CfgFixed(3)
    /\ s_def = InitialDefinition
    /\ g_data_definition = InitialDefinition
    /\ wire = <<Segment(0, <<1, 2, 3, 4>>)>>
    /\ g_frame_queue = <<>>
    /\ fields = [k \in 1..MAX_FIELD_COUNT |-> ZeroParsed]
    /\ cmds_left = MaxCmds
    /\ scenario = NoScenario

Next == RxNext \/ CmdNext \/ ProcNext

Spec == Init /\ [][Next]_vars

(***************************************************************************)
(* Frames on the line                                                      *)
(***************************************************************************)
\* Custom: STX 0x02, three payload bytes, CRC-16/MODBUS of the payload at
\* offset 4 (little-endian), ETX 0x03
CfgE2E ==
    ProtocolConfig(PROTOCOL_CUSTOM,
        CustomCfg(0, TRUE, 2, TRUE, 3, FALSE, 0, 0, FALSE, CRC_16_MODBUS, 4, 1, 4, 0))

CfgAscii == ProtocolConfig(PROTOCOL_MODBUS_ASCII, ModbusCfg(1, 0, 0, 0))

CfgNmea == ProtocolConfig(PROTOCOL_NMEA_0183, NmeaCfg(0, TRUE))

CfgIec == ProtocolConfig(PROTOCOL_IEC_60870_101, Iec60870Cfg(1, 1, 1, 1, 0, FALSE, 0))

HexPair(b) == <<HexChar(b \div 16), HexChar(b % 16)>>

RECURSIVE HexPairs(_)
HexPairs(bytes) == IF bytes = <<>> THEN <<>> ELSE HexPair(Head(bytes)) \o HexPairs(Tail(bytes))

MakeCustom(payload) ==
    LET c == crc_calc_crc16_modbus(payload)
    IN  <<2>> \o payload \o <<c % 256, c \div 256>> \o <<3>>

MakeRtu(body) ==
    LET c == crc_calc_crc16_modbus(body)
    IN  body \o <<c % 256, c \div 256>>

MakeAscii(bytes) ==
    <<58>> \o HexPairs(bytes) \o HexPair((256 - crc_calc_sum8(bytes)) % 256) \o <<13, 10>>

MakeNmea(body) == <<36>> \o body \o <<42>> \o HexPair(crc_calc_xor(body)) \o <<13, 10>>

MakeIecFixed(c, a) == <<16, c, a, (c + a) % 256, 22>>

MakeIecVariable(data) ==
    <<104, Len(data), Len(data), 104>> \o data \o <<crc_calc_sum8(data), 22>>

\* data with bit b of byte i inverted
FlipBit(data, i, b) ==
    [data EXCEPT ![i + 1] = IF Bit(@, b) = 1 THEN @ - Pow2(b) ELSE @ + Pow2(b)]

\* the bytes verify_crc computes the checksum over (indices from 0)
CoveredRange(cfg, f) ==
    LET len == Len(f)
    IN  CASE cfg.type = PROTOCOL_CUSTOM ->
                LET c == custom(cfg)
                    crc_end == IF c.crc_end_offset = 0 \/ c.crc_end_offset > len
                                  THEN c.crc_offset ELSE c.crc_end_offset
                IN  IF c.crc_type = CRC_NONE THEN {} ELSE c.crc_start_offset..(crc_end - 1)
          [] cfg.type = PROTOCOL_MODBUS_RTU -> 0..(len - 3)
          [] cfg.type = PROTOCOL_MODBUS_ASCII -> 1..(len - 5)
          [] cfg.type = PROTOCOL_NMEA_0183 ->
                IF validate_checksum(cfg) THEN 1..(nmea_star(f, len, 1) - 1) ELSE {}
          [] cfg.type = PROTOCOL_IEC_60870_101 ->
                IF f[1] = 16 THEN 1..2 ELSE IF f[1] = 104 THEN 4..(3 + f[2]) ELSE {}
          [] OTHER -> {}

\* the bytes outside the covered range that verify_crc reads all the same: the
\* stored checksum, the '*' of NMEA, the structure bytes of IEC 101
VerifyReadsOutside(cfg, f) ==
    LET len == Len(f)
    IN  CASE cfg.type = PROTOCOL_CUSTOM ->
                LET c == custom(cfg)
                IN  IF c.crc_type = CRC_NONE THEN {}
                    ELSE c.crc_offset..(c.crc_offset + crc_get_size(c.crc_type) - 1)
          [] cfg.type = PROTOCOL_MODBUS_RTU -> {len - 2, len - 1}
          [] cfg.type = PROTOCOL_MODBUS_ASCII -> {len - 4, len - 3}
          [] cfg.type = PROTOCOL_NMEA_0183 ->
                IF validate_checksum(cfg)
                   THEN LET i == nmea_star(f, len, 1) IN {i, i + 1, i + 2} ELSE {}
          [] cfg.type = PROTOCOL_IEC_60870_101 -> (0..(len - 1)) \ CoveredRange(cfg, f)
          [] OTHER -> {}

(***************************************************************************)
(* The reception task alone, over frames on the line                       *)
(***************************************************************************)
Scenario(kind, cfg, line, f1, f2, at) ==
    [kind |-> kind, cfg |-> cfg, wire |-> line, f1 |-> f1, f2 |-> f2, at |-> at]

\* a protocol and two well-formed frames of it
FramePairs ==
    { <<CfgE2E, MakeCustom(<<0, 10, 0>>), MakeCustom(<<1, 5, 7>>)>>,
      <<CfgRtu(4), MakeRtu(<<1, 3, 0, 10>>), MakeRtu(<<17, 6>>)>>,
      <<CfgAscii, MakeAscii(<<10, 3, 0>>), MakeAscii(<<27, 5, 1>>)>>,
      <<CfgNmea, MakeNmea(<<71, 80, 65>>), MakeNmea(<<71, 80, 66, 44, 49>>)>>,
      <<CfgIec, MakeIecFixed(73, 1), MakeIecVariable(<<8, 1>>)>> }

\* the silence after which a second Modbus RTU frame starts
RtuPairGap == 5

\* two frames back to back, split into batches in every way
PairScenarios ==
    { Scenario("pair", p[1],
               IF p[1].type = PROTOCOL_MODBUS_RTU
                  THEN <<Segment(0, p[2]), Segment(RtuPairGap, p[3])>>
                  ELSE <<Segment(0, p[2] \o p[3])>>,
               p[2], p[3], 0) : p \in FramePairs }

\* one frame with one bit inverted, then silence: f1 the frame, f2 what is on
\* the line, at the index of the changed byte
FlipScenariosOf(cfg, f) ==
    { Scenario("flip", cfg, <<Segment(0, FlipBit(f, i, b))>>, f, FlipBit(f, i, b), i) :
          i \in 0..(Len(f) - 1), b \in 0..7 }

FlipScenarios ==
    UNION { FlipScenariosOf(p[1], p[2]) \cup FlipScenariosOf(p[1], p[3]) : p \in FramePairs }

RtuDelays == {0, 4, 150}

RtuGaps == {2, 10, 50, 120, 160}

\* Modbus RTU: a frame, silence (at), then more bytes (f2)
RtuScenarios ==
    { Scenario("rtu", CfgRtu(d), <<Segment(0, MakeRtu(<<1, 3, 0, 10>>)), Segment(g, t)>>,
               MakeRtu(<<1, 3, 0, 10>>), t, g) :
          d \in RtuDelays, g \in RtuGaps, t \in {MakeRtu(<<17, 6>>), <<9>>} }
    \cup { Scenario("rtu", CfgRtu(d), <<Segment(0, MakeRtu(<<1, 3, 0, 10>>))>>,
                    MakeRtu(<<1, 3, 0, 10>>), <<>>, MaxTime) : d \in RtuDelays }

\* the silence between a rejected frame and the next one (ticks)
RejectGap == 200

\* the index of the first byte each checksum covers
FirstCovered(cfg) == IF cfg.type = PROTOCOL_MODBUS_RTU THEN 0 ELSE 1

\* a frame with the lowest bit of its first covered byte inverted (f1), silence,
\* then a well-formed frame (f2)
RejectScenarios ==
    { Scenario("reject", p[1],
               <<Segment(0, FlipBit(p[2], FirstCovered(p[1]), 0)), Segment(RejectGap, p[3])>>,
               FlipBit(p[2], FirstCovered(p[1]), 0), p[3], FirstCovered(p[1])) :
          p \in FramePairs }

\* a well-formed frame (f1), silence, then the lone first byte of a frame (f2)
IdleScenarios ==
    { Scenario("idle", p[1],
               <<Segment(0, p[2]), Segment(RejectGap, <<p[2][1]>>)>>, p[2], <<p[2][1]>>, 0) :
          p \in FramePairs }

\* NMEA sentences $AF*xy CR LF, with and without validate_checksum: the true
\* pair 07, a wrong pair 00, and 7Z, whose second character is no hex digit
NmeaPairs == {HexPair(crc_calc_xor(<<65, 70>>)), <<48, 48>>, <<55, 90>>}

NmeaScenarios ==
    { Scenario("nmea", ProtocolConfig(PROTOCOL_NMEA_0183, NmeaCfg(0, v)),
               <<Segment(0, <<36, 65, 70, 42>> \o p \o <<13, 10>>)>>,
               <<36, 65, 70, 42>> \o p \o <<13, 10>>, <<>>, 0) :
          v \in BOOLEAN, p \in NmeaPairs }

FramingScenarios ==
    PairScenarios \cup FlipScenarios \cup RtuScenarios \cup RejectScenarios \cup IdleScenarios
        \cup NmeaScenarios

InitFraming ==
    /\ InitCommon
    /\ scenario \in FramingScenarios
    /\ s_proto_cfg = scenario.cfg
    /\ g_protocol_config = scenario.cfg
    /\ wire = scenario.wire
    /\ s_def = InitialDefinition
    /\ g_data_definition = InitialDefinition
    /\ g_frame_queue = <<>>
    /\ fields = [k \in 1..MAX_FIELD_COUNT |-> ZeroParsed]
    /\ cmds_left = 0

NextFraming == RxNext

SpecFraming == InitFraming /\ [][NextFraming]_vars

\* the line is drained and the reception task waits with an empty buffer
Done == wire = <<>> /\ rx_pc = "wait" /\ s_frame_idx = 0

IsOk(e) == e.ok

\* the frames handed to the callback so far
Delivered == SelectSeq(processed, IsOk)

(***************************************************************************)
(* The processing task alone, over queued frames                           *)
(***************************************************************************)
Item(data, junk) == [data |-> data, length |-> Len(data), junk |-> junk, pre_def |-> FALSE]

\* five fields, the fourth (index 3) at offset 40
DefFive ==
    DataDefinition(5, 1,
        <<U8Field(0),
          FieldDef(DATA_TYPE_UINT16, 1, 1, 0, 16, 100, -500, 1, 2),
          FieldDef(DATA_TYPE_INT8, 0, 3, 0, 8, 0, 0, 1, 4),
          FieldDef(DATA_TYPE_UINT16, 0, 40, 0, 16, 0, 0, 1, 6),
          FieldDef(DATA_TYPE_UINT8, 0, 4, 0, 8, 2000, 0, 1, 8)>>,
        <<65, 0, 66, 0, 67, 0, 68, 0, 69, 0>>, 10)

\* one field at offset 2
DefOne == DataDefinition(1, 0, <<U8Field(2)>>, <<>>, 0)

\* a string and a field of unknown type after an out-of-range first field
DefMixed ==
    DataDefinition(4, 0,
        <<U8Field(9),
          FieldDef(DATA_TYPE_STRING, 0, 1, 0, 16, 0, 0, 0, 0),
          FieldDef(255, 0, 0, 0, 8, 0, 700, 0, 0),
          FieldDef(DATA_TYPE_BCD, 0, 0, 0, 16, 0, 0, 0, 0)>>,
        <<>>, 0)

\* scale factors 1000, 0 and others, with and without an offset
DefScaled ==
    DataDefinition(5, 0,
        <<FieldDef(DATA_TYPE_UINT16, 1, 0, 0, 16, 1000, 0, 0, 0),
          FieldDef(DATA_TYPE_INT8, 0, 4, 0, 8, 0, 0, 0, 0),
          FieldDef(DATA_TYPE_UINT8, 0, 2, 0, 8, 0, 250, 0, 0),
          FieldDef(DATA_TYPE_INT16, 0, 4, 0, 16, 250, -1234, 0, 0),
          FieldDef(DATA_TYPE_BOOL, 0, 0, 1, 1, 1000, 100, 0, 0)>>,
        <<>>, 0)

\* a name of 40 characters, a name that ends with the blob and has no
\* terminator, a name_index at names_length and one far beyond it
DefNames ==
    DataDefinition(4, 0,
        <<FieldDef(DATA_TYPE_UINT8, 0, 0, 0, 8, 0, 0, 40, 0),
          FieldDef(DATA_TYPE_UINT8, 0, 1, 0, 8, 0, 0, 2, 41),
          FieldDef(DATA_TYPE_UINT8, 0, 0, 0, 8, 0, 0, 0, 43),
          FieldDef(DATA_TYPE_UINT8, 0, 9, 0, 8, 0, 0, 0, 500)>>,
        [k \in 1..40 |-> 78] \o <<0, 65, 66>>, 43)

\* a string and a hex-string of 8 declared bytes from offset 1, and a string
\* and a hex-string that fit
DefStrings ==
    DataDefinition(4, 0,
        <<FieldDef(DATA_TYPE_STRING, 0, 1, 0, 64, 0, 0, 0, 0),
          FieldDef(DATA_TYPE_HEX_STRING, 0, 1, 0, 64, 0, 0, 0, 0),
          FieldDef(DATA_TYPE_STRING, 0, 0, 0, 8, 0, 0, 0, 0),
          FieldDef(DATA_TYPE_HEX_STRING, 0, 0, 0, 8, 0, 0, 0, 0)>>,
        <<>>, 0)

ParserDefinitions ==
    {DefFive, DefOne, DefMixed, DefScaled, DefNames, DefStrings,
     DataDefinition(0, 0, <<>>, <<>>, 0)}

ParserFrames ==
    {Item(<<1, 2, 7>>, 165), Item(<<18, 52>>, 0), Item(<<2, 1, 1, 44, 255, 9, 3>>, 165),
     Item(<<5>>, 0)}

ParserScenarios ==
    { [kind |-> "parse", def |-> d, frames |-> <<a, b>>] :
          d \in ParserDefinitions, a \in ParserFrames, b \in ParserFrames }

InitParser ==
    /\ InitCommon
    /\ scenario \in ParserScenarios
    /\ s_proto_cfg = CfgFixed(3)
    /\ g_protocol_config = CfgFixed(3)
    /\ wire = <<>>
    /\ s_def = scenario.def
    /\ g_data_definition = scenario.def
    /\ g_frame_queue = scenario.frames
    /\ \E g \in {ZeroParsed, JunkParsed} : fields = [k \in 1..MAX_FIELD_COUNT |-> g]
    /\ cmds_left = 0

NextParser == ProcNext

SpecParser == InitParser /\ [][NextParser]_vars

(***************************************************************************)
(* Properties                                                              *)
(***************************************************************************)

\* C1: once a new ProtocolConfig is installed, no byte accumulated before the
\* installation is passed to process_frame, under every interleaving of
\* uart_handler_update_protocol with the reception task.
C1_NoByteFromBeforeInstall ==
    \A k \in DOMAIN processed : ~processed[k].old

C3_SingleGeneration ==
    proc_pc = "done" => Cardinality(p_gens) <= 1

\* C4: two well-formed frames back to back are delivered as exactly two
\* frames, the first frame's bytes and then the second's, however the bytes
\* are split into batches.
C4_TwoFramesDelivered ==
    scenario.kind = "pair" =>
        /\ \A k \in DOMAIN processed :
              processed[k].ok => processed[k].data \in {scenario.f1, scenario.f2}
        /\ Done => /\ Len(Delivered) = 2
                   /\ Delivered[1].data = scenario.f1
                   /\ Delivered[2].data = scenario.f2

\* C5: a frame with one bit inverted inside the checksum-covered range is
\* rejected: the callback is not invoked and the error counter increments.
C5_FlipInsideRejected ==
    (scenario.kind = "flip" /\ scenario.at \in CoveredRange(scenario.cfg, scenario.f1)) =>
        /\ \A k \in DOMAIN processed : ~processed[k].ok
        /\ Done => s_error_count >= 1

\* C6 as the specification states it: a frame with one bit inverted outside
\* the checksum-covered range is not rejected: it is delivered and the error
\* counter stays.
C6_FlipOutsideDelivered ==
    (scenario.kind = "flip" /\ scenario.at \notin CoveredRange(scenario.cfg, scenario.f1)) =>
        /\ s_error_count = 0
        /\ Done => \E k \in DOMAIN processed :
                      processed[k].ok /\ processed[k].data = scenario.f2

\* the changed byte is outside the covered range and verify_crc does not read
\* it, and in a Custom frame it has not become the ETX value
FlipUnread ==
    /\ scenario.kind = "flip"
    /\ scenario.at \notin CoveredRange(scenario.cfg, scenario.f1)
    /\ scenario.at \notin VerifyReadsOutside(scenario.cfg, scenario.f1)
    /\ scenario.cfg.type = PROTOCOL_CUSTOM =>
          scenario.f2[scenario.at + 1] # custom(scenario.cfg).etx_value

\* C6, amended: a frame followed by silence, with one bit inverted in a byte
\* that is outside the checksum-covered range and that verify_crc does not
\* read, is not rejected: it is delivered whole, once, and the error counter
\* stays.
C6_FlipUnreadDelivered ==
    FlipUnread =>
        /\ s_error_count = 0
        /\ Done => /\ Len(Delivered) = 1
                   /\ Delivered[1].data = scenario.f2

\* the STX of a Custom frame was changed and the frame was delivered
C6_StxFlippedDelivered ==
    /\ FlipUnread /\ Done
    /\ scenario.cfg.type = PROTOCOL_CUSTOM /\ scenario.at = 0
    /\ Len(Delivered) = 1 /\ Delivered[1].data = scenario.f2

\* the inter-frame delay in force: the configured one, or 4
RtuSilence(cfg) == IF inter_frame_delay(cfg) = 0 THEN 4 ELSE inter_frame_delay(cfg)

\* C7: under Modbus RTU a CRC-valid frame of at least 4 bytes followed by
\* silence of at least the inter-frame delay is delivered on its own, whatever
\* arrives after the silence.
C7_RtuFrameDeliveredAfterSilence ==
    (scenario.kind = "rtu" /\ scenario.at >= pdMS_TO_TICKS(RtuSilence(scenario.cfg))) =>
        /\ \A k \in DOMAIN processed :
              processed[k].pos[1] = 1 => processed[k].data = scenario.f1
        /\ Done => \E k \in DOMAIN processed :
                      processed[k].ok /\ processed[k].data = scenario.f1

\* C8: under Modbus RTU process_frame is never called while the time since
\* the last received byte is less than the configured inter-frame delay.
C8_RtuNotBeforeSilence ==
    \A k \in DOMAIN processed :
        processed[k].cfg.type = PROTOCOL_MODBUS_RTU =>
            processed[k].elapsed >= pdMS_TO_TICKS(inter_frame_delay(processed[k].cfg))

\* a Modbus RTU frame was withheld at the first idle tick, the delay being
\* longer, and delivered at a later one
C8_RtuDeliveredAfterLongDelay ==
    \E k \in DOMAIN processed :
        /\ processed[k].cfg.type = PROTOCOL_MODBUS_RTU
        /\ inter_frame_delay(processed[k].cfg) > RX_WAIT_MS
        /\ processed[k].ok
        /\ processed[k].elapsed >= pdMS_TO_TICKS(inter_frame_delay(processed[k].cfg))

\* data_len of the parse in progress
DataLen == item.length - p_data_off

\* C9: a field whose start_offset is at or beyond the payload length does not
\* disturb its siblings: the parse fails only for an empty definition or a
\* data_offset beyond the frame, and every field that starts inside the
\* payload has the name, type, value and scaled value its own definition and
\* the frame give.
C9_OutOfRangeFieldIsolated ==
    proc_pc = "done" =>
        IF s_def.field_count = 0 \/ s_def.data_offset >= item.length
           THEN p_ret = -1
           ELSE /\ p_ret = Min(s_def.field_count, MAX_FIELD_COUNT)
                /\ \A i \in 0..(p_ret - 1) :
                      LET fd == FieldAt(s_def, i)
                          d == decode_field(fd, item, s_def.data_offset, DataLen,
                                            fields[i + 1].value)
                      IN  fd.start_offset < DataLen =>
                             fields[i + 1] =
                                 ParsedField(data_parser_get_field_name(s_def, i, MAX_FIELD_NAME_LEN),
                                             fd.field_type, d.value, scaled_of(fd, d.raw))

\* a parse has returned with a skipped field and, after it, a decoded sibling
\* whose value is not zero
C9_SkippedWithLaterSibling ==
    /\ proc_pc = "done" /\ p_ret > 0
    /\ \E i \in p_skipped : \E j \in (i + 1)..(p_ret - 1) :
          /\ j \notin p_skipped
          /\ fields[j + 1].scaled_value # 0
          /\ fields[j + 1].scaled_value # JunkParsed.scaled_value

\* C10: after data_parser_parse_frame returns, every field skipped for its
\* start_offset has raw value and scaled value zero, for every frame of a
\* sequence parsed into the same fields[].
C10_SkippedFieldsAreZero ==
    (proc_pc = "done" /\ p_ret > 0) =>
        \A i \in p_skipped :
            /\ fields[i + 1].scaled_value = 0
            /\ fields[i + 1].value.v = IF fields[i + 1].value.member = "str" THEN <<>> ELSE 0

(***************************************************************************)
(* Reception and processing together, over one frame on the line           *)
(***************************************************************************)
\* one little-endian uint16 field at payload offset 0, scale_factor 100
DefE2E(data_offset) ==
    DataDefinition(1, data_offset,
        <<FieldDef(DATA_TYPE_UINT16, 0, 0, 0, 16, 100, 0, 1, 0)>>, <<86, 0>>, 2)

\* 02 00 0A 00 crc_lo crc_hi 03
FrameE2E == MakeCustom(<<0, 10, 0>>)

\* the largest data_offset of a definition
MaxDataOffset == 2

\* where the payload may begin inside the frame
E2EDataOffsets == 0..MaxDataOffset

E2EScenarios ==
    { [kind |-> "e2e", cfg |-> CfgE2E, wire |-> <<Segment(0, FrameE2E)>>,
       f1 |-> FrameE2E, def |-> DefE2E(o)] : o \in E2EDataOffsets }

InitE2E ==
    /\ InitCommon
    /\ scenario \in E2EScenarios
    /\ s_proto_cfg = scenario.cfg
    /\ g_protocol_config = scenario.cfg
    /\ wire = scenario.wire
    /\ s_def = scenario.def
    /\ g_data_definition = scenario.def
    /\ g_frame_queue = <<>>
    /\ \E g \in {ZeroParsed, JunkParsed} : fields = [k \in 1..MAX_FIELD_COUNT |-> g]
    /\ cmds_left = 0

\* the field of DefE2E always starts inside the payload: no iteration of the
\* parse loop takes the continue
NextE2E ==
    \/ RxNext
    \/ ProcDequeue
    \/ ParseStart
    \/ ParseFieldDecode
    \/ ParseReturn
    \/ ProcPublish

SpecE2E == InitE2E /\ [][NextE2E]_vars

\* the line is drained, the buffer and the queue are empty, both tasks wait
E2EDone == Done /\ g_frame_queue = <<>> /\ proc_pc = "idle"

\* exactly one frame was delivered and its parse gave one field, raw value 10
\* and scaled value 1.0
E2EOneFieldTen ==
    /\ Len(processed) = 1
    /\ processed[1].ok /\ processed[1].data = scenario.f1
    /\ g_sequence = 1 /\ p_ret = 1
    /\ fields[1].value = FieldValue("u16", 10)
    /\ fields[1].scaled_value = 1000

\* C11 as the specification states it: the seven bytes, in any batching, give
\* exactly one delivered frame and one parsed field with raw value 10 and
\* scaled value 1.0, wherever the definition places the payload.
C11_EndToEndAnyOffset ==
    (scenario.kind = "e2e" /\ E2EDone) => E2EOneFieldTen

\* C11, amended: with the payload beginning at the byte 0A (data_offset 2) the
\* seven bytes, in any batching, give exactly one delivered frame and one
\* parsed field with raw value 10 and scaled value 1.0.
C11_EndToEndOffsetTwo ==
    (scenario.kind = "e2e" /\ scenario.def.data_offset = 2 /\ E2EDone) => E2EOneFieldTen

\* the frame arrived in more than one batch and was parsed to 10 and 1.0
C11_ParsedTenInBatches ==
    /\ scenario.kind = "e2e" /\ scenario.def.data_offset = 2 /\ E2EDone
    /\ Len(rx_buf) < Len(scenario.f1)
    /\ E2EOneFieldTen

\* the raw value the parse in progress read for field i
RawOf(i) ==
    decode_field(FieldAt(s_def, i), item, s_def.data_offset, DataLen, fields[i + 1].value).raw

RECURSIVE BitsOf(_, _)
BitsOf(v, w) == IF w = 0 THEN <<>> ELSE BitsOf(v \div 2, w - 1) \o <<v % 2>>

\* the number whose bits, most significant first, are b
RECURSIVE ValueOf(_)
ValueOf(b) == IF b = <<>> THEN 0 ELSE (2 * ValueOf(SubSeq(b, 1, Len(b) - 1))) + b[Len(b)]

Reverse(b) == [k \in 1..Len(b) |-> b[Len(b) + 1 - k]]

XorBits(a, b) == [k \in 1..Len(a) |-> (a[k] + b[k]) % 2]

\* width, initial value, polynomial, reflection, final XOR of a CRC row of the
\* table; 32-bit values as their two halves
RefCrcRow(type) ==
    CASE type = CRC_8 ->
            [init |-> BitsOf(0, 8), poly |-> BitsOf(7, 8), reflected |-> FALSE, invert |-> FALSE]
      [] type = CRC_8_CCITT ->
            [init |-> BitsOf(0, 8), poly |-> BitsOf(141, 8), reflected |-> FALSE, invert |-> FALSE]
      [] type = CRC_16_IBM ->
            [init |-> BitsOf(0, 16), poly |-> BitsOf(32773, 16), reflected |-> TRUE, invert |-> FALSE]
      [] type = CRC_16_CCITT ->
            [init |-> BitsOf(65535, 16), poly |-> BitsOf(4129, 16), reflected |-> FALSE, invert |-> FALSE]
      [] type = CRC_16_MODBUS ->
            [init |-> BitsOf(65535, 16), poly |-> BitsOf(32773, 16), reflected |-> TRUE, invert |-> FALSE]
      [] type = CRC_16_XMODEM ->
            [init |-> BitsOf(0, 16), poly |-> BitsOf(4129, 16), reflected |-> FALSE, invert |-> FALSE]
      [] type = CRC_32 ->
            [init |-> BitsOf(65535, 16) \o BitsOf(65535, 16),
             poly |-> BitsOf(1217, 16) \o BitsOf(7607, 16), reflected |-> TRUE, invert |-> TRUE]
      [] type = CRC_32_C ->
            [init |-> BitsOf(65535, 16) \o BitsOf(65535, 16),
             poly |-> BitsOf(7900, 16) \o BitsOf(28481, 16), reflected |-> TRUE, invert |-> TRUE]

\* the register after the eight bits of one byte, from bit k on: one shift per
\* bit, and the polynomial is subtracted when the bit shifted out differs from
\* the message bit
RECURSIVE RefShift(_, _, _, _)
RefShift(reg, poly, bits, k) ==
    IF k > Len(bits) THEN reg
    ELSE LET shifted == Tail(reg) \o <<0>>
         IN  RefShift(IF reg[1] # bits[k] THEN XorBits(shifted, poly) ELSE shifted,
                      poly, bits, k + 1)

\* the register after the bytes from i on, the bits of a byte entering least
\* significant first when the row is reflected
RECURSIVE RefBytes(_, _, _, _)
RefBytes(reg, row, bytes, i) ==
    IF i > Len(bytes) THEN reg
    ELSE LET bits == IF row.reflected THEN Reverse(BitsOf(bytes[i], 8))
                     ELSE BitsOf(bytes[i], 8)
         IN  Eager(reg, RefBytes(RefShift(reg, row.poly, bits, 1), row, bytes, i + 1))

\* the digest of a CRC row, as bits
RefCrc(row, bytes) ==
    LET reg == RefBytes(row.init, row, bytes, 1)
        out == IF row.reflected THEN Reverse(reg) ELSE reg
    IN  IF row.invert THEN [k \in 1..Len(out) |-> 1 - out[k]] ELSE out

RECURSIVE RefSum(_)
RefSum(bytes) == IF bytes = <<>> THEN 0 ELSE Head(bytes) + RefSum(Tail(bytes))

\* bit n of the running XOR: the parity of the bytes that have it set
RefParity(bytes, n) == Cardinality({k \in DOMAIN bytes : Bit(bytes[k], n) = 1}) % 2

\* the digest as 32 bits
RefDigestBits(type, bytes) ==
    CASE type = CRC_XOR_LRC -> BitsOf(0, 24) \o [k \in 1..8 |-> RefParity(bytes, 8 - k)]
      [] type = CRC_SUM8 -> BitsOf(0, 24) \o BitsOf(RefSum(bytes) % 256, 8)
      [] type = CRC_SUM16 -> BitsOf(0, 16) \o BitsOf(RefSum(bytes) % 65536, 16)
      [] OTHER -> LET d == RefCrc(RefCrcRow(type), bytes)
                  IN  BitsOf(0, 32 - Len(d)) \o d

\* the digest as four bytes, least significant first
RefDigest(type, bytes) ==
    LET b == RefDigestBits(type, bytes)
    IN  <<ValueOf(SubSeq(b, 25, 32)), ValueOf(SubSeq(b, 17, 24)),
          ValueOf(SubSeq(b, 9, 16)), ValueOf(SubSeq(b, 1, 8))>>

(***************************************************************************)
(* The reception task alone, over frames that carry the table's digest     *)
(***************************************************************************)
CrcAlgorithms ==
    {CRC_XOR_LRC, CRC_SUM8, CRC_SUM16, CRC_8, CRC_8_CCITT, CRC_16_IBM, CRC_16_CCITT,
     CRC_16_MODBUS, CRC_16_XMODEM, CRC_32, CRC_32_C}

\* the longest byte sequence drawn from CrcBytes
MaxCrcLen == 2

CrcBytes == {0, 128, 255}

\* "123456789"
CheckVector == <<49, 50, 51, 52, 53, 54, 55, 56, 57>>

CrcInputs == UNION { [1..n -> CrcBytes] : n \in 1..MaxCrcLen } \cup {CheckVector}

\* Custom, fixed length, the digest of type over the first n bytes stored
\* after them
CfgCrc(type, n) ==
    ProtocolConfig(PROTOCOL_CUSTOM,
        CustomCfg(n + crc_get_size(type), FALSE, 0, FALSE, 0, FALSE, 0, 0, FALSE,
                  type, n, 0, n, 0))

CrcScenarios ==
    { LET ref == RefDigest(t, d)
      IN  [kind |-> "crc", type |-> t, data |-> d, ref |-> ref, cfg |-> CfgCrc(t, Len(d)),
           f1 |-> d \o SubSeq(ref, 1, crc_get_size(t))] :
          t \in CrcAlgorithms, d \in CrcInputs }

InitCrc ==
    /\ InitCommon
    /\ scenario \in CrcScenarios
    /\ s_proto_cfg = scenario.cfg
    /\ g_protocol_config = scenario.cfg
    /\ wire = <<Segment(0, scenario.f1)>>
    /\ s_def = InitialDefinition
    /\ g_data_definition = InitialDefinition
    /\ g_frame_queue = <<>>
    /\ fields = [k \in 1..MAX_FIELD_COUNT |-> ZeroParsed]
    /\ cmds_left = 0

NextCrc == RxNext

SpecCrc == InitCrc /\ [][NextCrc]_vars

\* C13: for each of the eleven algorithms and every byte sequence,
\* crc_calculate gives the digest of the specification's table, so a frame
\* carrying that digest passes verification; CRC-32 of "123456789" is
\* 0xCBF43926.
C13_CrcMatchesTable ==
    scenario.kind = "crc" =>
        /\ rx_pc = "process" =>
               /\ crc_calculate(scenario.type, scenario.data) = scenario.ref
               /\ scenario.data = CheckVector =>
                      crc_calculate(CRC_32, scenario.data) = <<38, 57, 244, 203>>
        /\ \A k \in DOMAIN processed : processed[k].ok /\ processed[k].data = scenario.f1

\* the frame carrying the table's CRC-32 of "123456789" was accepted
C13_CheckVectorAccepted ==
    /\ scenario.kind = "crc" /\ scenario.type = CRC_32 /\ scenario.data = CheckVector
    /\ Done /\ Len(processed) = 1 /\ processed[1].ok
    /\ SubSeq(processed[1].data, 10, 13) = <<38, 57, 244, 203>>

(***************************************************************************)
(* The reception task alone, over a line that never falls silent: after    *)
(* some bytes that start no frame, the same well-formed frame arrives      *)
(* again and again                                                         *)
(***************************************************************************)
\* the calls of process_frame after which the line falls silent
MaxStreamProcessed == 2

\* IEC 60870-5-101: a byte that starts no frame, then single-character
\* acknowledgements 0xE5
StreamScenarios ==
    { [kind |-> "stream", cfg |-> CfgIec, garbage |-> <<0>>, f1 |-> <<229>>] }

InitStream ==
    /\ InitCommon
    /\ scenario \in StreamScenarios
    /\ s_proto_cfg = scenario.cfg
    /\ g_protocol_config = scenario.cfg
    /\ wire = <<Segment(0, scenario.garbage)>>
    /\ s_def = InitialDefinition
    /\ g_data_definition = InitialDefinition
    /\ g_frame_queue = <<>>
    /\ fields = [k \in 1..MAX_FIELD_COUNT |-> ZeroParsed]
    /\ cmds_left = 0

\* the device sends its frame once more, at once; positions on the line are
\* counted from the start of the frame being sent
LineRefill ==
    /\ scenario.kind = "stream"
    /\ wire = <<>>
    /\ Len(processed) < MaxStreamProcessed
    /\ wire' = <<Segment(0, scenario.f1)>>
    /\ wire_pos' = 0
    /\ UNCHANGED <<task_vars, wifi_vars,
                   uart_vars, rx_vars, now, rx_base, t_last_byte, main_vars, s_def,
                   proc_vars, cmd_vars, hist_vars>>

NextStream == RxNext \/ LineRefill

\* the reception task keeps being scheduled and bytes keep arriving
SpecStream ==
    InitStream /\ [][NextStream]_vars /\ WF_vars(RxNext) /\ WF_vars(LineRefill)

\* a well-formed frame that arrived after the malformed bytes was delivered
StreamFrameDelivered ==
    \E k \in DOMAIN processed : processed[k].ok /\ processed[k].data = scenario.f1

\* C14: reception does not get stuck on bad input: after bytes that start no
\* frame, the well-formed frames that follow are eventually delivered, the
\* reception task being scheduled and bytes arriving for ever.
C14_LaterFramesDelivered == <>StreamFrameDelivered

(***************************************************************************)
(* Reception and processing together, over more frames than the queue      *)
(* holds                                                                   *)
(***************************************************************************)
\* the frames on the line, one byte each, each in a batch of its own
QueueFrames == 11

QueueScenarios ==
    { [kind |-> "queue", cfg |-> CfgFixed(1),
       wire |-> [k \in 1..QueueFrames |-> Segment(0, <<100 + k>>)]] }

InitQueue ==
    /\ InitCommon
    /\ scenario \in QueueScenarios
    /\ s_proto_cfg = scenario.cfg
    /\ g_protocol_config = scenario.cfg
    /\ wire = scenario.wire
    /\ s_def = InitialDefinition
    /\ g_data_definition = InitialDefinition
    /\ g_frame_queue = <<>>
    /\ fields = [k \in 1..MAX_FIELD_COUNT |-> ZeroParsed]
    /\ cmds_left = 0

NextQueue == RxNext \/ ProcNext

SpecQueue == InitQueue /\ [][NextQueue]_vars

\* the frames validated so far, in order
Validated == [k \in DOMAIN Delivered |-> Delivered[k].data]

\* the frames taken from the queue and those still in it, in queue order
Handled == dequeued \o [k \in DOMAIN g_frame_queue |-> g_frame_queue[k].data]

\* s is t with some elements left out: position k of s is t[f[k]] for a
\* strictly increasing f
RECURSIVE IsSubsequence(_, _)
IsSubsequence(s, t) ==
    IF s = <<>> THEN TRUE
    ELSE IF t = <<>> THEN FALSE
    ELSE IF Head(s) = Head(t) THEN IsSubsequence(Tail(s), Tail(t))
    ELSE IsSubsequence(s, Tail(t))

\* C15: the queue never holds more than 10 frames; the frames the processing
\* task takes are validated frames, in the order of validation, each at most
\* once; and a frame validated while the queue holds 10 is dropped, the queue
\* staying as it is and the reception task going on to reset its buffer.
C15_QueueBoundedOrderedNonBlocking ==
    /\ [](/\ Len(g_frame_queue) <= UART_RX_QUEUE_SIZE
          /\ IsSubsequence(Handled, Validated))
    /\ [][(/\ rx_pc = "process" /\ rx_pc' # rx_pc
            /\ Len(g_frame_queue) = UART_RX_QUEUE_SIZE)
             => (/\ g_frame_queue' = g_frame_queue /\ rx_pc' = "reset"
                 /\ s_rx_count' = s_rx_count + 1)]_vars

\* a frame was validated while the queue held 10 frames and was dropped, and
\* the processing task has since taken every queued frame
C15_FrameDroppedQueueFull ==
    /\ scenario.kind = "queue"
    /\ Len(Validated) > Len(Handled)
    /\ Len(dequeued) = UART_RX_QUEUE_SIZE
    /\ g_frame_queue = <<>> /\ Done

\* C16: when verification of a completed frame fails the error counter grows
\* by one, the received-frame counter and the queue stay as they are, the
\* buffer is then reset to empty, and the next well-formed frame is delivered.
C16_RejectedFrameCountedAndDropped ==
    /\ [][(/\ rx_pc = "process" /\ rx_pc' # rx_pc
           /\ ~processed'[Len(processed')].ok)
             => (/\ s_error_count' = s_error_count + 1
                 /\ s_rx_count' = s_rx_count
                 /\ g_frame_queue' = g_frame_queue
                 /\ rx_pc' = "reset")]_vars
    /\ [][(rx_pc = "reset" /\ rx_pc' # rx_pc) => s_frame_idx' = 0]_vars
    /\ []((scenario.kind = "reject" /\ Done) =>
             \E k \in DOMAIN processed :
                 processed[k].ok /\ processed[k].data = scenario.f2)

\* a frame was rejected and the frame after it was delivered
C16_RejectedThenDelivered ==
    /\ scenario.kind = "reject" /\ Done
    /\ Len(processed) = 2
    /\ ~processed[1].ok /\ processed[1].data = scenario.f1
    /\ processed[2].ok /\ processed[2].data = scenario.f2
    /\ s_error_count = 1 /\ s_rx_count = 1 /\ Len(g_frame_queue) = 1

\* C17: whenever an append batch held more bytes than the accumulation buffer
\* had room for, the overflow has been counted and the buffer is empty when
\* the reception task waits for the next event.
C17_OverflowCountedAndReset ==
    (rx_pc = "wait" /\ rx_path = "data" /\ rx_i < Len(rx_buf))
        => (s_error_count > 0 /\ s_frame_idx = 0)

(***************************************************************************)
(* uart_handler.c: uart_rx_task, the fault events of the UART driver       *)
(***************************************************************************)
\* the fault events the driver reports in one run
MaxFaults == 2

\* two well-formed frames, one batch of events each
FaultScenarios ==
    { [kind |-> "fault", cfg |-> CfgE2E, f1 |-> FrameE2E, f2 |-> FrameE2E] }

InitFault ==
    /\ InitCommon
    /\ scenario \in FaultScenarios
    /\ s_proto_cfg = scenario.cfg
    /\ g_protocol_config = scenario.cfg
    /\ wire = <<Segment(0, scenario.f1), Segment(0, scenario.f2)>>
    /\ s_def = InitialDefinition
    /\ g_data_definition = InitialDefinition
    /\ g_frame_queue = <<>>
    /\ fields = [k \in 1..MAX_FIELD_COUNT |-> ZeroParsed]
    /\ cmds_left = 0

\* the bytes uart_flush_input may find in the driver: any number of those
\* that have arrived and were not read yet
Flushable == IF wire # <<>> /\ Head(wire).gap = 0 THEN 0..Len(Head(wire).bytes) ELSE {0}

\* case UART_FIFO_OVF: case UART_BUFFER_FULL: uart_flush_input, xQueueReset,
\* s_frame_idx = 0, s_error_count++
RxFifoOverflow ==
    /\ rx_pc = "wait"
    /\ s_error_count < MaxFaults
    /\ \E k \in Flushable :
          /\ wire' = IF k = 0 THEN wire
                     ELSE IF k = Len(Head(wire).bytes) THEN Tail(wire)
                     ELSE <<Segment(0, SubSeq(Head(wire).bytes, k + 1, Len(Head(wire).bytes)))>>
                             \o Tail(wire)
          /\ wire_pos' = wire_pos + k
    /\ s_frame_idx' = 0
    /\ s_error_count' = s_error_count + 1
    /\ rx_path' = "fifo_ovf"
    /\ UNCHANGED <<task_vars, wifi_vars,
                   s_proto_cfg, s_frame_buf, s_last_rx, s_rx_count, s_receiving,
                   rx_pc, rx_buf, rx_i, rx_idx, now, rx_base, t_last_byte,
                   main_vars, s_def, proc_vars, cmd_vars, hist_vars>>

\* case UART_PARITY_ERR: case UART_FRAME_ERR: s_error_count++
RxParityError ==
    /\ rx_pc = "wait"
    /\ s_error_count < MaxFaults
    /\ s_error_count' = s_error_count + 1
    /\ rx_path' = "parity_err"
    /\ UNCHANGED <<task_vars, wifi_vars,
                   s_proto_cfg, s_frame_buf, s_frame_idx, s_last_rx, s_rx_count,
                   s_receiving, rx_pc, rx_buf, rx_i, rx_idx, line_vars,
                   main_vars, s_def, proc_vars, cmd_vars, hist_vars>>

NextFault == RxNext \/ RxFifoOverflow \/ RxParityError

SpecFault == InitFault /\ [][NextFault]_vars

\* the step is the handling of a fault event
FaultStep ==
    /\ rx_pc = "wait" /\ rx_pc' = "wait"
    /\ rx_path' \in {"fifo_ovf", "parity_err"}
    /\ s_error_count' # s_error_count

\* C18: the handling of every fault event of the byte source leaves the
\* accumulation buffer empty, adds exactly one to the error counter and
\* returns to waiting for the next event.
C18_FaultFlushesAndCounts ==
    [][FaultStep => (/\ s_frame_idx' = 0
                     /\ s_error_count' = s_error_count + 1
                     /\ rx_pc' = "wait")]_vars

\* C19: the accumulation buffer, its index and the last-receive timestamp
\* change only in steps of the reception task, never in a step of the
\* command task or of the processing task.
C19_BufferStateOwnedByRxTask ==
    [][(<<s_frame_buf, s_frame_idx, s_last_rx>>' # <<s_frame_buf, s_frame_idx, s_last_rx>>)
          => (cmd_pc' = cmd_pc /\ proc_pc' = proc_pc)]_vars

\* the configurations uart_handler_start and the commands hand over whole
WholeConfigs == {CfgFixed(3)} \cup NewProtocolConfigs

\* a step in which uart_rx_task evaluates is_frame_complete, verify_crc or
\* the idle-timeout check
EvaluationStep ==
    \/ rx_pc = "check" /\ rx_pc' # "check"
    \/ rx_pc = "process" /\ rx_pc' # "process"
    \/ rx_pc = "wait" /\ rx_path' = "timeout" /\ now' # now /\ s_frame_idx > 0

\* C20: in every evaluation of is_frame_complete, verify_crc or the
\* idle-timeout check the reception task reads a ProtocolConfig that is
\* wholly the old one or wholly the new one.
C20_ConfigSeenWhole ==
    [][EvaluationStep => s_proto_cfg \in WholeConfigs]_vars

\* C21: when s_def.data_offset is at or beyond the length of the frame,
\* data_parser_parse_frame returns -1 without writing an element of fields[],
\* and the processing task publishes nothing for the frame.
C21_OffsetBeyondFrameFailsWhole ==
    /\ [][(/\ proc_pc = "parse" /\ proc_pc' # proc_pc
           /\ s_def.data_offset >= item.length)
             => (p_ret' = -1 /\ fields' = fields /\ proc_pc' = "done")]_vars
    /\ [][(proc_pc = "done" /\ proc_pc' # proc_pc /\ p_ret = -1)
             => (g_sequence' = g_sequence /\ fields' = fields)]_vars

\* a frame was published, and the frame after it was refused for a
\* data_offset at its length
C21_RefusedAfterPublished ==
    /\ proc_pc = "idle" /\ Len(dequeued) = 2 /\ g_frame_queue = <<>>
    /\ s_def.field_count > 0
    /\ s_def.data_offset = item.length
    /\ p_ret = -1
    /\ g_sequence = 1

(***************************************************************************)
(* Configuration commands, some of them with too many fields, while the    *)
(* processing task parses queued frames                                    *)
(***************************************************************************)
\* the commands of one run
MaxConfigCmds == 3

\* data[0] of a data-definition command that names more than MAX_FIELD_COUNT
\* fields
OversizedCounts == {MAX_FIELD_COUNT + 1, 255}

\* Fault: a data definition with more than MAX_FIELD_COUNT fields is parsed
\* and installed like any other.
CmdSetDataDefRejected_Accepts ==
    /\ cmd_pc = "idle"
    /\ cmds_left > 0
    /\ \E n \in OversizedCounts, off \in {0, 1} :
          g_data_definition' = DataDefinition(n, off, <<>>, <<>>, 0)
    /\ cmds_left' = cmds_left - 1
    /\ cmd_pc' = "def_layout"
    /\ UNCHANGED <<task_vars, wifi_vars,
                   uart_vars, rx_vars, line_vars, g_frame_queue, g_protocol_config,
                   g_sequence, s_def, proc_vars, hist_vars>>

\* CMD_SET_DATA_DEF with data[0] > MAX_FIELD_COUNT: parse_data_definition
\* (main.c) returns before it touches g_data_definition,
\* cmd_parse_data_definition (cmd_handler.c) after it has cleared
\* g_data_definition and stored the two header bytes; neither calls
\* data_parser_set_definition
CmdSetDataDefRejected ==
    /\ cmd_pc = "idle"
    /\ cmds_left > 0
    /\ \E n \in OversizedCounts, off \in {0, 1}, handler \in {"main", "cmd_handler"} :
          g_data_definition' = IF handler = "main" THEN g_data_definition
                               ELSE DataDefinition(n, off, <<>>, <<>>, 0)
    /\ cmds_left' = cmds_left - 1
    /\ cmd_pc' = "idle"
    /\ UNCHANGED <<task_vars, wifi_vars,
                   uart_vars, rx_vars, line_vars, g_frame_queue, g_protocol_config,
                   g_sequence, s_def, proc_vars, hist_vars>>

InitConfig ==
    /\ InitCommon
    /\ s_proto_cfg = CfgFixed(3)
    /\ g_protocol_config = CfgFixed(3)
    /\ s_def = InitialDefinition
    /\ g_data_definition = InitialDefinition
    /\ wire = <<>>
    /\ g_frame_queue = <<Item(<<1, 2, 7>>, 165), Item(<<18, 52>>, 0)>>
    /\ fields = [k \in 1..MAX_FIELD_COUNT |-> ZeroParsed]
    /\ cmds_left = MaxConfigCmds
    /\ scenario = NoScenario

NextConfig == CmdNext \/ CmdSetDataDefRejected \/ ProcNext

SpecConfig == InitConfig /\ [][NextConfig]_vars

\* C22: a data-definition command with more than MAX_FIELD_COUNT fields
\* leaves the definition of the extraction engine as it is, and after any
\* sequence of commands s_def.field_count is at most MAX_FIELD_COUNT.
C22_OversizedDefinitionRejected ==
    /\ [](s_def.field_count <= MAX_FIELD_COUNT)
    /\ [][(cmd_pc = "idle" /\ cmd_pc' = "idle" /\ cmds_left' # cmds_left)
             => s_def' = s_def]_vars

\* an oversized command was refused after another definition had been
\* installed, which is still the one in use
C22_RefusedKeepsInstalled ==
    /\ cmd_pc = "idle"
    /\ g_data_definition.field_count > MAX_FIELD_COUNT
    /\ s_def \in NewDefinitions

\* an idle tick of uart_rx_task at which the buffer is not empty and the last
\* byte is at least the timeout of the active protocol old
IdleExpiry ==
    /\ rx_pc = "wait" /\ rx_path' = "timeout" /\ now' # now
    /\ s_frame_idx > 0
    /\ now' - t_last_byte >= pdMS_TO_TICKS(idle_timeout_ms(s_proto_cfg))

\* C23: at such an idle tick a buffer of at least 3 bytes goes once to
\* process_frame, which delivers it if verify_crc accepts it, and a shorter
\* buffer is discarded without delivery; after process_frame or the discard
\* the buffer index is set to 0 before uart_rx_task waits for the next bytes.
C23_IdleExpiryDeliversOrDiscards ==
    /\ [][IdleExpiry => rx_pc' = IF s_frame_idx >= 3 THEN "process" ELSE "reset"]_vars
    /\ [][(rx_pc = "process" /\ rx_pc' # rx_pc)
             => LET e == processed'[Len(processed')]
                IN  /\ Len(processed') = Len(processed) + 1
                    /\ e.data = Slice(s_frame_buf, 0, s_frame_idx)
                    /\ Len(g_frame_queue') = Len(g_frame_queue) + (IF e.ok THEN 1 ELSE 0)
                    /\ e.ok => g_frame_queue'[Len(g_frame_queue')].data = e.data
                    /\ rx_pc' = "reset"]_vars
    /\ [][(rx_pc = "reset" /\ rx_pc' # rx_pc)
             => (/\ s_frame_idx' = 0 /\ rx_pc' = "wait"
                 /\ processed' = processed /\ g_frame_queue' = g_frame_queue)]_vars
    /\ [](rx_pc # "reset" =>
             \A k \in 1..s_frame_idx : \A n \in DOMAIN processed :
                 \A m \in DOMAIN processed[n].pos :
                     processed[n].pos[m] # s_frame_tag[k].pos)

\* a frame was delivered, and after silence a lone byte is being discarded at
\* an idle tick
C23_ShortBufferDiscarded ==
    /\ scenario.kind = "idle"
    /\ rx_pc = "reset" /\ rx_path = "timeout" /\ s_frame_idx = 1
    /\ Len(processed) = 1 /\ processed[1].ok /\ processed[1].data = scenario.f1
    /\ Len(g_frame_queue) = 1

\* the calls of process_frame that ended in a checksum failure
FailedCount == Cardinality({n \in DOMAIN processed : ~processed[n].ok})

\* C24: when a buffer of fewer than 3 bytes is dropped at an idle timeout,
\* the error counter has grown by one for it once the drop is done, beyond
\* the errors counted for checksum failures.
C24_ShortDropCounted ==
    [][(/\ rx_pc = "reset" /\ rx_pc' # rx_pc
        /\ rx_path = "timeout" /\ s_frame_idx \in 1..2)
          => s_error_count' > FailedCount]_vars

(***************************************************************************)
(* The reception task alone under Custom configurations: the terminator    *)
(* rule, the length-field rule and the checksum of a Custom frame          *)
(***************************************************************************)
\* etx_enable set, with and without stx_enable, ETX of one byte (03) and of
\* two bytes (0D 0A); no fixed length, no length field, no checksum
CfgEtx(stx_enable, etx_value) ==
    ProtocolConfig(PROTOCOL_CUSTOM,
        CustomCfg(0, stx_enable, 2, TRUE, etx_value, FALSE, 0, 0, FALSE, CRC_NONE, 0, 0, 0, 0))

\* the bytes of an ETX value on the line: one byte, or high byte then low byte
EtxBytes(etx_value) ==
    IF etx_value <= 255 THEN <<etx_value>> ELSE <<etx_value \div 256, etx_value % 256>>

EtxScenarios ==
    { [kind |-> "etx", cfg |-> CfgEtx(s, v),
       wire |-> <<Segment(0, <<2, 65, 66>> \o EtxBytes(v))>>,
       f1 |-> <<2, 65, 66>> \o EtxBytes(v)] :
          s \in BOOLEAN, v \in {3, 3338} }

\* only the length-field rule: a field of 1 or 2 bytes at offset 1 that gives
\* the total frame length or the length of the payload after the field
CfgLength(size, includes_header) ==
    ProtocolConfig(PROTOCOL_CUSTOM,
        CustomCfg(0, FALSE, 0, FALSE, 0, TRUE, 1, size, includes_header, CRC_NONE, 0, 0, 0, 0))

\* a frame of such a configuration with the payload 01 02 03
LengthFrame(size, includes_header) ==
    LET v == IF includes_header THEN 1 + size + 3 ELSE 3
    IN  <<170>> \o (IF size = 1 THEN <<v>> ELSE <<v % 256, v \div 256>>) \o <<1, 2, 3>>

LengthScenarios ==
    { [kind |-> "length", cfg |-> CfgLength(n, h),
       wire |-> <<Segment(0, LengthFrame(n, h))>>, f1 |-> LengthFrame(n, h)] :
          n \in {1, 2}, h \in BOOLEAN }

\* STX/ETX framing with a CRC-16/MODBUS at offset 4: a well-formed frame, a
\* lone terminator byte, and buffers that end before the checksum offset
CrcFieldScenarios ==
    { [kind |-> "crcfield", cfg |-> CfgE2E, wire |-> <<Segment(0, f)>>, f1 |-> f] :
          f \in {FrameE2E, <<3>>, <<2, 3>>, <<2, 9, 9>>} }

CustomScenarios == EtxScenarios \cup LengthScenarios \cup CrcFieldScenarios

InitCustom ==
    /\ InitCommon
    /\ scenario \in CustomScenarios
    /\ s_proto_cfg = scenario.cfg
    /\ g_protocol_config = scenario.cfg
    /\ wire = scenario.wire
    /\ s_def = InitialDefinition
    /\ g_data_definition = InitialDefinition
    /\ g_frame_queue = <<>>
    /\ fields = [k \in 1..MAX_FIELD_COUNT |-> ZeroParsed]
    /\ cmds_left = 0

NextCustom == RxNext

SpecCustom == InitCustom /\ [][NextCustom]_vars

\* the tail of the buffer is the configured ETX
TailIsEtx ==
    LET e == EtxBytes(custom(s_proto_cfg).etx_value)
    IN  /\ s_frame_idx >= Len(e)
        /\ Slice(s_frame_buf, s_frame_idx - Len(e), Len(e)) = e

\* C25: under a Custom configuration with etx_enable set, every evaluation of
\* is_frame_complete on a buffer whose tail is the configured ETX judges the
\* buffer complete, whatever stx_enable is.
C25_EtxTailCompletes ==
    [][(/\ rx_pc = "check" /\ rx_pc' # rx_pc
        /\ scenario.kind = "etx" /\ TailIsEtx)
          => rx_pc' = "process"]_vars

\* the whole length field is in the buffer and the buffer is as long as the
\* field says
LengthSatisfied ==
    LET c == custom(s_proto_cfg)
        v == IF c.length_field_size = 1 THEN At(s_frame_buf, c.length_field_offset)
             ELSE At(s_frame_buf, c.length_field_offset)
                    + (256 * At(s_frame_buf, c.length_field_offset + 1))
    IN  /\ s_frame_idx >= c.length_field_offset + c.length_field_size
        /\ IF c.length_includes_header THEN s_frame_idx >= v
           ELSE s_frame_idx >= c.length_field_offset + c.length_field_size + v

\* C26: under a Custom configuration with only the length-field rule,
\* is_frame_complete judges the buffer complete only when the whole length
\* field has been received and the buffer is as long as its value requires,
\* for every split of the frame into batches.
C26_LengthRuleNeverEarly ==
    [][(/\ rx_pc = "check" /\ rx_pc' = "process"
        /\ scenario.kind = "length")
          => LengthSatisfied]_vars

RECURSIVE SumBytes(_)
SumBytes(d) == IF d = <<>> THEN 0 ELSE d[1] + SumBytes(Tail(d))

\* d is E5, or 10 CF AF CS 16, or 68 L L 68 <L bytes> CS 16, with the sum
\* modulo 256 as CS
IecShape(d) ==
    \/ d = <<229>>
    \/ /\ Len(d) = 5 /\ d[1] = 16 /\ d[5] = 22
       /\ d[4] = (d[2] + d[3]) % 256
    \/ /\ Len(d) >= 6 /\ d[1] = 104 /\ d[4] = 104 /\ d[2] = d[3]
       /\ Len(d) = 4 + d[2] + 2
       /\ d[Len(d)] = 22
       /\ d[Len(d) - 1] = SumBytes(SubSeq(d, 5, 4 + d[2])) % 256

\* C27: with IEC 60870-5-101 active every delivered frame is exactly one
\* single-byte acknowledgement, one fixed frame or one variable frame.
C27_IecDeliversOneShape ==
    \A n \in DOMAIN processed :
        (processed[n].ok /\ processed[n].cfg.type = PROTOCOL_IEC_60870_101)
            => IecShape(processed[n].data)

\* the value of an ASCII hex digit, or -1
HexValue(c) ==
    IF c \in 48..57 THEN c - 48
    ELSE IF c \in 65..70 THEN c - 55
    ELSE IF c \in 97..102 THEN c - 87
    ELSE -1

RECURSIVE XorAll(_)
XorAll(d) == IF d = <<>> THEN 0 ELSE Xor(d[1], XorAll(Tail(d)))

\* d holds a '*' followed by two hex digits, CR, LF, and the digits denote the
\* XOR of the bytes between the leading '$' and that '*'
NmeaChecksumHolds(d) ==
    LET n == Len(d)
    IN  /\ n >= 6
        /\ d[n - 4] = 42
        /\ HexValue(d[n - 3]) >= 0 /\ HexValue(d[n - 2]) >= 0
        /\ (16 * HexValue(d[n - 3])) + HexValue(d[n - 2]) = XorAll(SubSeq(d, 2, n - 5))

\* C28: a completed NMEA sentence is accepted exactly when its checksum pair
\* denotes the XOR of the bytes between '$' and '*' if validate_checksum is
\* set, and always if it is clear.
C28_NmeaAcceptedIffChecksum ==
    \A n \in DOMAIN processed :
        (scenario.kind = "nmea" /\ processed[n].path = "data")
            => (processed[n].ok <=>
                   (validate_checksum(processed[n].cfg) => NmeaChecksumHolds(processed[n].data)))

\* the digest of crc_type over d[crc_start_offset, end) equals the value
\* stored little-endian in d at crc_offset, end being crc_end_offset or, when
\* that is 0, crc_offset
CustomChecksumHolds(c, d) ==
    LET end == IF c.crc_end_offset # 0 THEN c.crc_end_offset ELSE c.crc_offset
        size == crc_get_size(c.crc_type)
    IN  /\ c.crc_start_offset <= end /\ end <= Len(d)
        /\ c.crc_offset + size <= Len(d)
        /\ crc_calculate(c.crc_type, SubSeq(d, c.crc_start_offset + 1, end))
              = [k \in 1..4 |-> IF k <= size THEN d[c.crc_offset + k] ELSE 0]

\* C29: under a Custom configuration with crc_type other than none, every
\* frame that is accepted carries at crc_offset the digest of its bytes
\* [crc_start_offset, end).
C29_CustomAcceptedOnlyWithDigest ==
    \A n \in DOMAIN processed :
        (scenario.kind = "crcfield" /\ processed[n].ok)
            => CustomChecksumHolds(custom(processed[n].cfg), processed[n].data)

(***************************************************************************)
(* The reception task alone under Modbus RTU: byte sequences followed by   *)
(* their CRC or by two other bytes, then silence                           *)
(***************************************************************************)
\* the longest byte sequence p
MaxRtuBody == 3

RtuBodyBytes == {1, 3, 255}

RtuBodies == UNION { [1..n -> RtuBodyBytes] : n \in 1..MaxRtuBody }

\* the two bytes after p: each the byte of CRC-16/MODBUS(p), that byte with
\* one bit changed, 00 or FF
RtuTrailers(ref) ==
    { <<a, b>> : a \in {ref[1], Xor(ref[1], 1), 0, 255},
                 b \in {ref[2], Xor(ref[2], 128), 0, 255} }

RtuCheckScenarios ==
    UNION { LET ref == RefDigest(CRC_16_MODBUS, p)
            IN  { [kind |-> "rtucheck", cfg |-> CfgRtu(4), p |-> p, ref |-> ref,
                   f1 |-> p \o t] : t \in RtuTrailers(ref) } :
            p \in RtuBodies }

InitRtuCheck ==
    /\ InitCommon
    /\ scenario \in RtuCheckScenarios
    /\ s_proto_cfg = scenario.cfg
    /\ g_protocol_config = scenario.cfg
    /\ wire = <<Segment(0, scenario.f1)>>
    /\ s_def = InitialDefinition
    /\ g_data_definition = InitialDefinition
    /\ g_frame_queue = <<>>
    /\ fields = [k \in 1..MAX_FIELD_COUNT |-> ZeroParsed]
    /\ cmds_left = 0

NextRtuCheck == RxNext

SpecRtuCheck == InitRtuCheck /\ [][NextRtuCheck]_vars

\* C30: under Modbus RTU, p followed by CRC-16/MODBUS(p), low byte first, is
\* accepted by verify_crc when p has at least 2 bytes, p followed by any other
\* two bytes is rejected, and a buffer of fewer than 4 bytes is rejected.
C30_RtuRoundTrip ==
    \A n \in DOMAIN processed :
        (scenario.kind = "rtucheck" /\ processed[n].data = scenario.f1)
            => (processed[n].ok <=>
                   (/\ Len(scenario.p) >= 2
                    /\ SubSeq(scenario.f1, Len(scenario.p) + 1, Len(scenario.p) + 2)
                          = SubSeq(scenario.ref, 1, 2)))

\* p of 3 bytes with its CRC was accepted, the CRC not being a palindrome
C30_RtuFrameAccepted ==
    /\ scenario.kind = "rtucheck"
    /\ Len(scenario.p) = 3 /\ scenario.ref[1] # scenario.ref[2]
    /\ Len(processed) = 1 /\ processed[1].ok /\ processed[1].data = scenario.f1
    /\ s_rx_count = 1 /\ s_error_count = 0

\* the name Field<i> for i below 100
DefaultName(i) ==
    <<70, 105, 101, 108, 100>> \o (IF i < 10 THEN <<48 + i>> ELSE <<48 + (i \div 10), 48 + (i % 10)>>)

\* C31: after a parse every name in fields[] is a run of field_names bytes
\* starting at name_index, all at positions below names_length and below
\* MAX_FIELD_NAMES_SIZE, of at most MAX_FIELD_NAME_LEN - 1 characters, and it
\* is Field<i> when name_index is at or beyond names_length.
C31_NameWithinBlob ==
    (proc_pc = "done" /\ p_ret > 0) =>
        \A i \in 0..(p_ret - 1) :
            LET name == fields[i + 1].name
                ni == FieldAt(s_def, i).name_index
            IN  /\ Len(name) <= MAX_FIELD_NAME_LEN - 1
                /\ IF ni >= s_def.names_length THEN name = DefaultName(i)
                   ELSE \A k \in 1..Len(name) :
                           /\ ni + k - 1 < s_def.names_length
                           /\ ni + k - 1 < MAX_FIELD_NAMES_SIZE
                           /\ ni + k - 1 < Len(s_def.field_names)
                           /\ name[k] = s_def.field_names[ni + k]

\* a parse has cut a name of 40 characters to 31, taken a name that ends with
\* the blob, and synthesized Field2 for a name_index at names_length
C31_NameCutAndDefault ==
    /\ proc_pc = "done" /\ p_ret = 4
    /\ Len(fields[1].name) = MAX_FIELD_NAME_LEN - 1
    /\ fields[2].name = <<65, 66>>
    /\ fields[3].name = <<70, 105, 101, 108, 100, 50>>
    /\ FieldAt(s_def, 2).name_index = s_def.names_length

\* the characters 0-9, A-F
UpperHexDigits == <<48, 49, 50, 51, 52, 53, 54, 55, 56, 57, 65, 66, 67, 68, 69, 70>>

\* the bytes of the payload from start_offset that a field declaring `declared`
\* bytes may use
ClippedBytes(fd, declared) ==
    LET rest == DataLen - fd.start_offset
        n == IF declared < rest THEN declared ELSE rest
    IN  [k \in 1..n |-> item.data[s_def.data_offset + fd.start_offset + k]]

\* C32: a string field holds exactly the payload bytes from start_offset, as
\* many as it declares (at most 63) or as many as remain, and a hex-string
\* field exactly two upper-case hex digits for each such byte (at most 31).
C32_StringsClippedToPayload ==
    (proc_pc = "done" /\ p_ret > 0) =>
        \A i \in (0..(p_ret - 1)) \ p_skipped :
            LET fd == FieldAt(s_def, i)
                v == fields[i + 1].value
                declared == fd.bit_length \div 8
            IN  /\ fd.field_type = DATA_TYPE_STRING =>
                      LET b == ClippedBytes(fd, IF declared > 63 THEN 63 ELSE declared)
                      IN  (\A k \in DOMAIN b : b[k] # 0) => (v.member = "str" /\ v.v = b)
                /\ fd.field_type = DATA_TYPE_HEX_STRING =>
                      LET b == ClippedBytes(fd, IF declared > 31 THEN 31 ELSE declared)
                      IN  /\ v.member = "str" /\ Len(v.v) = 2 * Len(b)
                          /\ \A k \in DOMAIN b :
                                /\ v.v[(2 * k) - 1] = UpperHexDigits[(b[k] \div 16) + 1]
                                /\ v.v[2 * k] = UpperHexDigits[(b[k] % 16) + 1]

\* a parse of a 7-byte payload has clipped a string and a hex-string that
\* declare 8 bytes from offset 1 to 6 bytes, one of them FF
C32_ClippedStringAndHex ==
    /\ proc_pc = "done" /\ p_ret = 4 /\ s_def = DefStrings
    /\ item.data = <<2, 1, 1, 44, 255, 9, 3>>
    /\ fields[1].value.v = <<1, 1, 44, 255, 9, 3>>
    /\ fields[2].value.v = <<48, 49, 48, 49, 50, 67, 70, 70, 48, 57, 48, 51>>

\* the number of payload bytes read_bytes is asked for, by field type
ReadWidth(field_type) ==
    IF field_type \in {DATA_TYPE_UINT16, DATA_TYPE_INT16} THEN 2
    ELSE IF field_type \in {DATA_TYPE_UINT32, DATA_TYPE_INT32, DATA_TYPE_FLOAT32,
                            DATA_TYPE_TIMESTAMP} THEN 4
    ELSE IF field_type \in {DATA_TYPE_UINT64, DATA_TYPE_INT64, DATA_TYPE_FLOAT64,
                            DATA_TYPE_TIMESTAMP_MS} THEN 8
    ELSE 1

\* C33: a field of width w is decoded only when the payload bytes
\* start_offset .. start_offset + w - 1 all lie below the payload length, and
\* its value is the one those bytes of the frame give.
C33_ReadsWithinFrame ==
    (proc_pc = "done" /\ p_ret > 0) =>
        \A i \in (0..(p_ret - 1)) \ p_skipped :
            LET fd == FieldAt(s_def, i)
            IN  ReadWidth(fd.field_type) > 1 =>
                    /\ fd.start_offset + ReadWidth(fd.field_type) <= DataLen
                    /\ \A junk \in JunkBytes :
                          decode_field(fd, item, p_data_off, DataLen, fields[i + 1]) =
                          decode_field(fd, [item EXCEPT !.junk = junk], p_data_off,
                                       DataLen, fields[i + 1])

\* the range verify_crc hands to crc_calculate for a Custom configuration and
\* a buffer of len bytes, and whether it gets as far as computing the digest
custom_digest_range(c, len) ==
    LET crc_end == IF c.crc_end_offset = 0 \/ c.crc_end_offset > len
                      THEN c.crc_offset ELSE c.crc_end_offset
    IN  [crc_start |-> c.crc_start_offset, crc_end |-> crc_end,
         computed |-> /\ c.crc_type # CRC_NONE
                      /\ crc_end # c.crc_start_offset
                      /\ c.crc_start_offset < len]

\* C34: whenever verify_crc computes the digest of a Custom frame, the range
\* satisfies crc_start_offset <= end <= frame length.
C34_DigestRangeWithinFrame ==
    \A k \in DOMAIN processed :
        LET e == processed[k]
            r == custom_digest_range(custom(e.cfg), Len(e.data))
        IN  (e.cfg.type = PROTOCOL_CUSTOM /\ r.computed) =>
                (r.crc_start <= r.crc_end /\ r.crc_end <= Len(e.data))

(***************************************************************************)
(* Commands that restart reception: CMD_SET_UART, and CMD_SET_PROTOCOL     *)
(* with a body that is refused, while the accumulation buffer is nearly    *)
(* full. The reception task of these behaviours is whichever task is       *)
(* running; how one task follows another is the subject of SpecTasks.      *)
(***************************************************************************)
\* the commands of one behaviour
MaxRestartCmds == 2

\* the bytes in the accumulation buffer at the start: bytes that start no IEC
\* 60870-5-101 frame, as they accumulate in the behaviours of SpecStream
RestartBuffered == 510

\* data[0] of a refused CMD_SET_PROTOCOL: a known type whose body is shorter
\* than its length field says, and a type the switch does not know
RefusedTypes == {PROTOCOL_MODBUS_RTU, 9}

\* CMD_SET_PROTOCOL refused with ESP_ERR_INVALID_ARG: parse_protocol_config
\* (main.c) fills a local and returns before the memcpy to g_protocol_config;
\* cmd_parse_protocol_config (cmd_handler.c) is handed &g_protocol_config and
\* has cleared it and stored data[0] as its type by then; neither calls
\* uart_handler_update_protocol
CmdSetProtocolRejected ==
    /\ cmd_pc = "idle"
    /\ cmds_left > 0
    /\ \E type \in RefusedTypes, handler \in {"main", "cmd_handler"} :
          g_protocol_config' = IF handler = "main" THEN g_protocol_config
                               ELSE ProtocolConfig(type, ZeroCustom)
    /\ cmds_left' = cmds_left - 1
    /\ cmd_pc' = "idle"
    /\ UNCHANGED <<task_vars, wifi_vars, uart_vars, rx_vars, line_vars, g_frame_queue,
                   g_data_definition, g_sequence, s_def, proc_vars, hist_vars>>

\* CMD_SET_UART accepted: uart_handler_stop, and the call of
\* uart_handler_stop at the head of uart_handler_start
CmdSetUart ==
    /\ cmd_pc = "idle"
    /\ cmds_left > 0
    /\ cmds_left' = cmds_left - 1
    /\ s_running' = FALSE
    /\ s_queue' = IF s_running THEN FALSE ELSE s_queue
    /\ cmd_pc' = "uart_copy"
    /\ UNCHANGED <<rx_tasks, ctl_pc, ctl_left, stopped, late_access,
                   wifi_vars, uart_vars, rx_vars, line_vars, main_vars, s_def,
                   proc_vars, hist_vars>>

\* uart_handler_start: memcpy(&s_proto_cfg, proto_cfg, ...)
UartStartCopy ==
    /\ cmd_pc = "uart_copy"
    /\ s_proto_cfg' = g_protocol_config
    /\ cfg_epoch' = cfg_epoch + 1
    /\ cmd_pc' = "uart_reset"
    /\ UNCHANGED <<task_vars, wifi_vars, s_frame_buf, s_frame_idx, s_last_rx, s_rx_count,
                   s_error_count, s_receiving, rx_vars, line_vars, main_vars, s_def,
                   proc_vars, cmds_left, scenario, dequeued, s_frame_tag, def_epoch,
                   s_def_gen, processed>>

\* uart_handler_start: uart_driver_install, the counters, s_frame_idx = 0,
\* s_running = true, xTaskCreate
UartStartReset ==
    /\ cmd_pc = "uart_reset"
    /\ s_queue' = TRUE
    /\ s_rx_count' = 0
    /\ s_error_count' = 0
    /\ s_frame_idx' = 0
    /\ s_receiving' = FALSE
    /\ s_running' = TRUE
    /\ cmd_pc' = "idle"
    /\ UNCHANGED <<rx_tasks, ctl_pc, ctl_left, stopped, late_access,
                   wifi_vars, s_proto_cfg, s_frame_buf, s_last_rx, rx_vars, line_vars,
                   main_vars, s_def, proc_vars, cmds_left, hist_vars>>

InitRestart ==
    /\ s_frame_buf = [k \in 1..RestartBuffered |-> 0]
    /\ s_frame_idx = RestartBuffered
    /\ s_frame_tag = [k \in 1..RestartBuffered |->
                         [pos |-> k, cfg_epoch |-> 0, def_epoch |-> 0]]
    /\ wire_pos = RestartBuffered
    /\ wire = <<Segment(0, <<229, 229, 229>>)>>
    /\ s_last_rx = 0 /\ s_rx_count = 0 /\ s_error_count = 0 /\ s_receiving = FALSE
    /\ rx_pc = "wait" /\ rx_buf = <<>> /\ rx_i = 0 /\ rx_idx = 0 /\ rx_path = "data"
    /\ now = 0 /\ rx_base = 0 /\ t_last_byte = 0
    /\ s_proto_cfg = CfgIec
    /\ g_protocol_config = CfgIec
    /\ s_def = InitialDefinition
    /\ g_data_definition = InitialDefinition
    /\ g_frame_queue = <<>> /\ g_sequence = 0
    /\ proc_pc = "idle"
    /\ item = [data |-> <<>>, length |-> 0, junk |-> 0, pre_def |-> FALSE]
    /\ fields = [k \in 1..MAX_FIELD_COUNT |-> ZeroParsed]
    /\ p_i = 0 /\ p_count = 0 /\ p_data_off = 0 /\ p_ret = 0
    /\ p_gens = {} /\ p_skipped = {}
    /\ cmd_pc = "idle" /\ cmds_left = MaxRestartCmds
    /\ scenario = NoScenario
    /\ cfg_epoch = 0 /\ def_epoch = 0
    /\ s_def_gen = [layout |-> 0, names |-> 0]
    /\ processed = <<>> /\ dequeued = <<>>
    /\ s_running = TRUE /\ s_queue = TRUE
    /\ rx_tasks = <<[pc |-> "test", left |-> 0]>>
    /\ ctl_pc = "idle" /\ ctl_left = 0
    /\ stopped = {} /\ late_access = {}
    /\ s_connected = FALSE /\ s_initial_connecting = FALSE
    /\ s_retry_count = 0 /\ s_backoff_ms = BACKOFF_INITIAL_MS
    /\ s_reconnect_timer = [created |-> FALSE, active |-> FALSE, period |-> 0]
    /\ wifi_pc = "stopped" /\ wifi_delays = <<>>

NextRestart ==
    \/ RxNext
    \/ CmdSetProtocol
    \/ UpdateProtocolCopyType
    \/ UpdateProtocolCopyUnion
    \/ UpdateProtocolResetIdx
    \/ CmdSetProtocolRejected
    \/ CmdSetUart
    \/ UartStartCopy
    \/ UartStartReset

SpecRestart == InitRestart /\ [][NextRestart]_vars

\* the configurations a command has handed over with success, and the one of
\* the start
AcceptedConfigs == {CfgIec} \cup NewProtocolConfigs

\* C35: a protocol-configuration command that is refused never changes the
\* configuration the synchronizer uses, at once or through a later command:
\* whenever no command is in progress, s_proto_cfg is a configuration that
\* was accepted.
C35_RefusedConfigNeverUsed ==
    cmd_pc = "idle" => s_proto_cfg \in AcceptedConfigs

C37_DeliveredStartsWithStx ==
    \A k \in DOMAIN processed :
        LET e == processed[k]
            c == custom(e.cfg)
            stx == EtxBytes(c.stx_value)
        IN  (e.ok /\ e.cfg.type = PROTOCOL_CUSTOM /\ c.stx_enable) =>
                /\ Len(e.data) >= Len(stx)
                /\ SubSeq(e.data, 1, Len(stx)) = stx

(***************************************************************************)
(* uart_handler.c: the reception tasks across uart_handler_stop and        *)
(* uart_handler_start. A blocking call takes any time up to its timeout;   *)
(* the steps between blocking calls take no time.                          *)
(***************************************************************************)
\* the restarts of one behaviour
MaxRestarts == 2

\* uart_handler_stop: vTaskDelay(pdMS_TO_TICKS(200))
STOP_DELAY_MS == 200

\* uart_rx_task: uart_read_bytes(..., pdMS_TO_TICKS(100))
READ_WAIT_MS == 100

\* the ticks by which time advances in one step
TaskTimeSteps == {50, 100}

RxTask(pc, left) == [pc |-> pc, left |-> left]

\* the tasks that have not reached vTaskDelete
LiveTasks == {i \in DOMAIN rx_tasks : rx_tasks[i].pc # "deleted"}

\* what a task does is late when uart_handler_stop has returned for it
Late(i, what) ==
    IF i \in stopped THEN late_access \cup {[task |-> i, what |-> what]} ELSE late_access

\* while (s_running): the test, then the call of xQueueReceive(s_queue, ...),
\* or vTaskDelete(NULL)
TaskTest ==
    \E i \in DOMAIN rx_tasks :
        /\ rx_tasks[i].pc = "test"
        /\ IF s_running
              THEN /\ rx_tasks' = [rx_tasks EXCEPT ![i] = RxTask("recv", pdMS_TO_TICKS(RX_WAIT_MS))]
                   /\ late_access' = Late(i, "queue")
              ELSE /\ rx_tasks' = [rx_tasks EXCEPT ![i] = RxTask("deleted", 0)]
                   /\ UNCHANGED late_access
        /\ UNCHANGED <<s_running, s_queue, ctl_pc, ctl_left, stopped, wifi_vars, uart_vars,
                       rx_vars, line_vars, main_vars, s_def, proc_vars, cmd_vars, hist_vars>>

\* xQueueReceive returns a UART_DATA event, at the latest in the tick in
\* which its timeout expires; uart_read_bytes is called
TaskRecvEvent ==
    \E i \in DOMAIN rx_tasks :
        /\ rx_tasks[i].pc = "recv"
        /\ s_queue
        /\ rx_tasks' = [rx_tasks EXCEPT ![i] = RxTask("read", pdMS_TO_TICKS(READ_WAIT_MS))]
        /\ UNCHANGED <<s_running, s_queue, ctl_pc, ctl_left, stopped, late_access, wifi_vars,
                       uart_vars, rx_vars, line_vars, main_vars, s_def, proc_vars, cmd_vars,
                       hist_vars>>

\* xQueueReceive times out; the idle branch, then back to the test
TaskRecvTimeout ==
    \E i \in DOMAIN rx_tasks :
        /\ rx_tasks[i].pc = "recv"
        /\ rx_tasks[i].left = 0
        /\ rx_tasks' = [rx_tasks EXCEPT ![i] = RxTask("test", 0)]
        /\ UNCHANGED <<s_running, s_queue, ctl_pc, ctl_left, stopped, late_access, wifi_vars,
                       uart_vars, rx_vars, line_vars, main_vars, s_def, proc_vars, cmd_vars,
                       hist_vars>>

\* uart_read_bytes returns: with bytes, at any time up to its timeout, while
\* the driver is installed; without, at the timeout or with the driver gone
TaskReadDone ==
    \E i \in DOMAIN rx_tasks :
        /\ rx_tasks[i].pc = "read"
        /\ \E len \in {0, 1} :
              /\ IF len > 0 THEN s_queue ELSE (rx_tasks[i].left = 0 \/ ~s_queue)
              /\ rx_tasks' = [rx_tasks EXCEPT ![i] =
                                 RxTask(IF len > 0 THEN "append" ELSE "test", 0)]
        /\ UNCHANGED <<s_running, s_queue, ctl_pc, ctl_left, stopped, late_access, wifi_vars,
                       uart_vars, rx_vars, line_vars, main_vars, s_def, proc_vars, cmd_vars,
                       hist_vars>>

\* s_last_rx = ..., the append loop, is_frame_complete and process_frame
TaskAppend ==
    \E i \in DOMAIN rx_tasks :
        /\ rx_tasks[i].pc = "append"
        /\ rx_tasks' = [rx_tasks EXCEPT ![i] = RxTask("test", 0)]
        /\ late_access' = Late(i, "buffer")
        /\ UNCHANGED <<s_running, s_queue, ctl_pc, ctl_left, stopped, wifi_vars, uart_vars,
                       rx_vars, line_vars, main_vars, s_def, proc_vars, cmd_vars, hist_vars>>

\* CMD_SET_UART: uart_handler_stop up to its vTaskDelay
CtlStop ==
    /\ ctl_pc = "idle"
    /\ cmds_left > 0
    /\ cmds_left' = cmds_left - 1
    /\ s_running' = FALSE
    /\ IF s_running
          THEN ctl_pc' = "delay" /\ ctl_left' = pdMS_TO_TICKS(STOP_DELAY_MS)
          ELSE ctl_pc' = "start" /\ ctl_left' = 0
    /\ UNCHANGED <<s_queue, rx_tasks, stopped, late_access, wifi_vars, uart_vars, rx_vars,
                   line_vars, main_vars, s_def, proc_vars, cmd_pc, hist_vars>>

\* uart_handler_stop after its vTaskDelay: s_task = NULL, uart_driver_delete,
\* s_queue = NULL, return
CtlStopReturn ==
    /\ ctl_pc = "delay"
    /\ ctl_left = 0
    /\ s_queue' = FALSE
    /\ stopped' = DOMAIN rx_tasks
    /\ ctl_pc' = "start"
    /\ UNCHANGED <<s_running, rx_tasks, ctl_left, late_access, wifi_vars, uart_vars,
                   rx_vars, line_vars, main_vars, s_def, proc_vars, cmd_vars, hist_vars>>

\* uart_handler_start: uart_driver_install, s_running = true, xTaskCreate
CtlStart ==
    /\ ctl_pc = "start"
    /\ s_queue' = TRUE
    /\ s_running' = TRUE
    /\ rx_tasks' = Append(rx_tasks, RxTask("test", 0))
    /\ ctl_pc' = "idle"
    /\ UNCHANGED <<ctl_left, stopped, late_access, wifi_vars, uart_vars, rx_vars,
                   line_vars, main_vars, s_def, proc_vars, cmd_vars, hist_vars>>

\* the ticks the blocked parties may still wait
WaitsLeft ==
    {rx_tasks[i].left : i \in {j \in DOMAIN rx_tasks : rx_tasks[j].pc \in {"recv", "read"}}}
        \cup (IF ctl_pc = "delay" THEN {ctl_left} ELSE {})

\* time passes while every task is blocked or gone and no wait has expired
Advance ==
    /\ \A i \in DOMAIN rx_tasks : rx_tasks[i].pc \in {"recv", "read", "deleted"}
    /\ ctl_pc \in {"idle", "delay"}
    /\ WaitsLeft # {}
    /\ \E d \in TaskTimeSteps :
          /\ \A w \in WaitsLeft : d <= w
          /\ rx_tasks' = [i \in DOMAIN rx_tasks |->
                             IF rx_tasks[i].pc \in {"recv", "read"}
                                THEN RxTask(rx_tasks[i].pc, rx_tasks[i].left - d)
                                ELSE rx_tasks[i]]
          /\ ctl_left' = IF ctl_pc = "delay" THEN ctl_left - d ELSE ctl_left
    /\ UNCHANGED <<s_running, s_queue, ctl_pc, stopped, late_access, wifi_vars, uart_vars,
                   rx_vars, line_vars, main_vars, s_def, proc_vars, cmd_vars, hist_vars>>

InitTasks ==
    /\ InitCommon
    /\ s_proto_cfg = CfgFixed(3)
    /\ g_protocol_config = CfgFixed(3)
    /\ s_def = InitialDefinition
    /\ g_data_definition = InitialDefinition
    /\ wire = <<>>
    /\ g_frame_queue = <<>>
    /\ fields = [k \in 1..MAX_FIELD_COUNT |-> ZeroParsed]
    /\ cmds_left = MaxRestarts
    /\ scenario = NoScenario

NextTasks ==
    \/ TaskTest
    \/ TaskRecvEvent
    \/ TaskRecvTimeout
    \/ TaskReadDone
    \/ TaskAppend
    \/ CtlStop
    \/ CtlStopReturn
    \/ CtlStart
    \/ Advance

SpecTasks == InitTasks /\ [][NextTasks]_vars

\* C38: across any sequence of uart_handler_stop and uart_handler_start at
\* most one reception task is running, and a task for which
\* uart_handler_stop has returned neither reads the event queue nor writes
\* the accumulation buffer afterwards.
C38_OneTaskNoLateAccess ==
    /\ Cardinality(LiveTasks) <= 1
    /\ late_access = {}

(***************************************************************************)
(* wifi_manager.c: the event handler, the reconnect timer and the wait of  *)
(* wifi_manager_connect                                                    *)
(***************************************************************************)
\* the disconnect events of one behaviour between two connections
MaxWifiRetries == 12

\* Fault: the backoff doubles without the cap.
backoff_after_uncapped(ms) == ms * BACKOFF_MULTIPLIER

\* schedule_reconnect: s_backoff_ms *= BACKOFF_MULTIPLIER, capped
backoff_after(ms) ==
    IF ms * BACKOFF_MULTIPLIER > BACKOFF_MAX_MS THEN BACKOFF_MAX_MS
    ELSE ms * BACKOFF_MULTIPLIER

\* schedule_reconnect: the one-shot timer is created if need be and started
\* with the current backoff, which then grows
schedule_reconnect ==
    /\ s_reconnect_timer' = [created |-> TRUE, active |-> TRUE, period |-> s_backoff_ms]
    /\ wifi_delays' = Append(wifi_delays, s_backoff_ms)
    /\ s_backoff_ms' = backoff_after(s_backoff_ms)

\* reset_backoff
reset_backoff ==
    /\ s_backoff_ms' = BACKOFF_INITIAL_MS
    /\ s_retry_count' = 0
    /\ s_reconnect_timer' = [s_reconnect_timer EXCEPT !.active = FALSE]
    /\ wifi_delays' = <<>>

\* wifi_event_handler, WIFI_EVENT_STA_DISCONNECTED: a connection attempt
\* failed or the connection was lost
WifiDisconnected ==
    /\ wifi_pc \in {"connecting", "connected"}
    /\ s_retry_count < MaxWifiRetries
    /\ s_connected' = FALSE
    /\ s_retry_count' = s_retry_count + 1
    /\ IF s_initial_connecting /\ s_retry_count + 1 < INITIAL_CONNECT_MAX_RETRY
          THEN /\ wifi_pc' = "connecting"
               /\ UNCHANGED <<s_initial_connecting, s_backoff_ms, s_reconnect_timer,
                              wifi_delays>>
          ELSE /\ s_initial_connecting' = FALSE
               /\ schedule_reconnect
               /\ wifi_pc' = "waiting"
    /\ UNCHANGED <<task_vars, uart_vars, rx_vars, line_vars, main_vars, s_def,
                   proc_vars, cmd_vars, hist_vars>>

\* reconnect_timer_callback: the one-shot timer expires, esp_wifi_connect
WifiTimerFired ==
    /\ s_reconnect_timer.active
    /\ s_reconnect_timer' = [s_reconnect_timer EXCEPT !.active = FALSE]
    /\ wifi_pc' = IF s_connected THEN wifi_pc ELSE "connecting"
    /\ UNCHANGED <<s_connected, s_initial_connecting, s_retry_count, s_backoff_ms,
                   wifi_delays, task_vars, uart_vars, rx_vars, line_vars, main_vars,
                   s_def, proc_vars, cmd_vars, hist_vars>>

\* wifi_event_handler, IP_EVENT_STA_GOT_IP
WifiGotIp ==
    /\ wifi_pc = "connecting"
    /\ s_connected' = TRUE
    /\ s_initial_connecting' = FALSE
    /\ reset_backoff
    /\ wifi_pc' = "connected"
    /\ UNCHANGED <<task_vars, uart_vars, rx_vars, line_vars, main_vars, s_def,
                   proc_vars, cmd_vars, hist_vars>>

\* wifi_manager_connect: xEventGroupWaitBits returns after 30 s with neither
\* bit set
WifiConnectTimeout ==
    /\ s_initial_connecting
    /\ s_initial_connecting' = FALSE
    /\ schedule_reconnect
    /\ UNCHANGED <<s_connected, s_retry_count, wifi_pc, task_vars, uart_vars, rx_vars,
                   line_vars, main_vars, s_def, proc_vars, cmd_vars, hist_vars>>

\* wifi_manager_connect has called esp_wifi_start and the handler of
\* WIFI_EVENT_STA_START esp_wifi_connect
InitWifi ==
    /\ s_frame_buf = <<>> /\ s_frame_idx = 0 /\ s_last_rx = 0
    /\ s_rx_count = 0 /\ s_error_count = 0 /\ s_receiving = FALSE
    /\ rx_pc = "wait" /\ rx_buf = <<>> /\ rx_i = 0 /\ rx_idx = 0 /\ rx_path = "data"
    /\ now = 0 /\ wire_pos = 0 /\ rx_base = 0 /\ t_last_byte = 0 /\ wire = <<>>
    /\ s_proto_cfg = CfgFixed(3)
    /\ g_protocol_config = CfgFixed(3)
    /\ s_def = InitialDefinition
    /\ g_data_definition = InitialDefinition
    /\ g_frame_queue = <<>> /\ g_sequence = 0
    /\ proc_pc = "idle"
    /\ item = [data |-> <<>>, length |-> 0, junk |-> 0, pre_def |-> FALSE]
    /\ fields = [k \in 1..MAX_FIELD_COUNT |-> ZeroParsed]
    /\ p_i = 0 /\ p_count = 0 /\ p_data_off = 0 /\ p_ret = 0
    /\ p_gens = {} /\ p_skipped = {}
    /\ cmd_pc = "idle" /\ cmds_left = 0
    /\ scenario = NoScenario
    /\ s_frame_tag = <<>> /\ cfg_epoch = 0 /\ def_epoch = 0
    /\ s_def_gen = [layout |-> 0, names |-> 0]
    /\ processed = <<>> /\ dequeued = <<>>
    /\ s_running = TRUE /\ s_queue = TRUE
    /\ rx_tasks = <<[pc |-> "test", left |-> 0]>>
    /\ ctl_pc = "idle" /\ ctl_left = 0
    /\ stopped = {} /\ late_access = {}
    /\ s_connected = FALSE /\ s_initial_connecting = TRUE
    /\ s_retry_count = 0 /\ s_backoff_ms = BACKOFF_INITIAL_MS
    /\ s_reconnect_timer = [created |-> FALSE, active |-> FALSE, period |-> 0]
    /\ wifi_pc = "connecting" /\ wifi_delays = <<>>

NextWifi == WifiDisconnected \/ WifiTimerFired \/ WifiGotIp \/ WifiConnectTimeout

SpecWifi == InitWifi /\ [][NextWifi]_vars

\* the delay of the k-th reconnect since the backoff was reset: 1 s, 2 s,
\* 4 s, 8 s, 16 s, then 30 s
BackoffDelay(k) ==
    CASE k = 1 -> 1000 [] k = 2 -> 2000 [] k = 3 -> 4000 [] k = 4 -> 8000
      [] k = 5 -> 16000 [] OTHER -> 30000

====
